---------------------------- MODULE Spec2Model ----------------------------
(***************************************************************************)
(* Model of the rubric evaluation core of cp-multilingual-qa-lab:          *)
(*   src/parrot_ai/llm_evaluation.py                                       *)
(*     - the score enforcement pipeline of EvaluationEngine.evaluate       *)
(*       (clamp_scale_scores, apply_purity_penalty, clamp_all_overalls,    *)
(*        enforce_knockouts, adjust_boldness, clamp_all_overalls)          *)
(*     - the batch driver EvaluationEngine.batch_evaluate                  *)
(*     - load_eval_questions and load_qa_pairs                             *)
(*   src/cp_eval.py (and the same functions in src/evaluate.py)            *)
(*     - aggregate_scores                                                  *)
(*     - the comparison table: ensure_csv_structure, update_comparison_csv *)
(*     - the results ledger: append_results_jsonl                          *)
(*     - a run of main in dataset mode and in the generate-* modes         *)
(*       (generate_dataset)                                                *)
(*     - two calls of update_comparison_csv on one table at once           *)
(*   src/create_dataset_script.py                                          *)
(*     - retry_with_backoff                                                *)
(*     - create_training_dataset and the --resume option of main           *)
(*                                                                         *)
(* A text is a sequence of tokens (words or phrases).  A token stands for  *)
(* a fixed piece of text: its letters are counted by script, and the       *)
(* substring tests of the code (pattern in answer) become token            *)
(* membership.  Arabic words are written in transliteration.               *)
(*                                                                         *)
(* A rubric score is a record of four sections, each a record from field   *)
(* name to value, exactly as the Python dict of dicts.  Penalty_Reason is  *)
(* the sequence of its ' | '-separated parts (None and '' are <<>>).       *)
(* Heuristic_Arabic_Purity_Pct is held in hundredths of a percent.         *)
(***************************************************************************)
EXTENDS Integers, Sequences, FiniteSets, TLC

VARIABLES
    answer,         \* evaluate: the answer text being scored
    parsed,         \* evaluate: completion.choices[0].message.parsed
    result,         \* evaluate: the returned result_dict
    status,         \* evaluate: "called" | "returned" | "raised"
    pairs,          \* batch_evaluate: the (question, answer) pairs
    limit,          \* batch_evaluate: limit (NoLimit for None)
    stop_on_error,  \* batch_evaluate: stop_on_error
    out,            \* batch_evaluate: out
    processed,      \* batch_evaluate: processed
    pos,            \* batch_evaluate: number of pairs enumerate() has yielded
    judged,         \* the replies of the Judge to the calls made so far, in order
    bstatus,        \* batch_evaluate: "loop" | "returned" | "raised"
    results,        \* aggregate_scores: the list of results it is given
    aggregated,     \* aggregate_scores: the mapping it returns
    astatus,        \* aggregate_scores: "called" | "returned"
    csv,            \* the comparison table file at csv_path
    csv_before,     \* the file as the last call of update_comparison_csv found it
    csv_call,       \* the arguments of the last call of update_comparison_csv
    updates,        \* the number of calls of update_comparison_csv so far
    cstatus,        \* "ready" | "updated" | "crashed" (the last call's outcome)
    ledger,         \* the results ledger file at path
    ledger_before,  \* the file as the last call of append_results_jsonl found it
    ledger_call,    \* the arguments of the last call of append_results_jsonl
    appends,        \* the number of calls of append_results_jsonl so far
    lstatus,        \* "ready" | "appended"
    questions_file, \* main: the lines of the questions file
    dataset,        \* main: the lines of the dataset, as their user and assistant texts
    args,           \* main: --answers-label and --overwrite
    generated,      \* main: the responses generate_dataset got in this run
    run_start,      \* the table and the ledger as main found them
    rstatus,        \* main: "started" | "aborted" | "completed"
    writers,        \* two concurrent calls of update_comparison_csv: their locals
    journal,        \* the steps the two calls have taken, in order
    retry_args,     \* retry_with_backoff: max_retries, initial_delay, backoff_factor
    attempt,        \* retry_with_backoff: attempt
    delay,          \* retry_with_backoff: delay
    last_exception, \* retry_with_backoff: last_exception
    calls,          \* the outcomes of the calls of func so far, in order
    sleeps,         \* the arguments of the calls of time.sleep so far, in order
    retry_out,      \* retry_with_backoff: running, or what it returned or raised
    combined_data,  \* create_dataset_script: the questions to answer, in order
    output_file,    \* create_dataset_script: the lines of args.output
    creation,       \* create_training_dataset: start_index, i, the counts, the status
    earlier_run,    \* creation as the run before this one left it
    attempted       \* the indices of the items the runs have taken up, in order

evalVars == <<answer, parsed, result, status>>
batchVars == <<pairs, limit, stop_on_error, out, processed, pos, judged, bstatus>>
aggVars == <<results, aggregated, astatus>>
csvVars == <<csv, csv_before, csv_call, updates, cstatus>>
ledgerVars == <<ledger, ledger_before, ledger_call, appends, lstatus>>
runVars == <<questions_file, dataset, args, generated, run_start, rstatus>>
raceVars == <<writers, journal>>
retryVars == <<retry_args, attempt, delay, last_exception, calls, sleeps, retry_out>>
resumeVars == <<combined_data, output_file, creation, earlier_run, attempted>>
otherVars == <<raceVars, retryVars, resumeVars>>
\* what the two concurrent calls of update_comparison_csv leave alone
notRaceVars == <<evalVars, batchVars, aggVars, ledgerVars, runVars, retryVars, resumeVars>>
\* what retry_with_backoff leaves alone
notRetryVars == <<evalVars, batchVars, aggVars, csvVars, ledgerVars, runVars, raceVars,
                  resumeVars>>
\* what a run of create_dataset_script leaves alone
notResumeVars == <<evalVars, batchVars, aggVars, csvVars, ledgerVars, runVars, raceVars,
                   retryVars>>
storeVars == <<aggVars, csvVars, ledgerVars, runVars, otherVars>>
\* what a call of aggregate_scores, of update_comparison_csv, of
\* append_results_jsonl leaves alone
notAggVars == <<evalVars, batchVars, csvVars, ledgerVars, runVars, otherVars>>
notCsvVars == <<evalVars, batchVars, aggVars, ledgerVars, runVars, otherVars>>
notLedgerVars == <<evalVars, batchVars, aggVars, csvVars, runVars, otherVars>>
vars == <<answer, parsed, result, status,
          pairs, limit, stop_on_error, out, processed, pos, judged, bstatus,
          results, aggregated, astatus,
          csv, csv_before, csv_call, updates, cstatus,
          ledger, ledger_before, ledger_call, appends, lstatus,
          questions_file, dataset, args, generated, run_start, rstatus,
          writers, journal,
          retry_args, attempt, delay, last_exception, calls, sleeps, retry_out,
          combined_data, output_file, creation, earlier_run, attempted>>

---------------------------------------------------------------------------
(* Bounds of the model *)

\* longest answer text, in tokens
MaxTokens == 2
\* longest list of pairs handed to batch_evaluate
MaxPairs == 2
\* longest list of results handed to aggregate_scores (the batch of nine
\* scored items and one failed item apart)
MaxItems == 3
\* most calls of update_comparison_csv on one table
MaxUpdates == 3
\* most calls of append_results_jsonl on one ledger
MaxAppends == 3
\* largest max_retries given to retry_with_backoff
MaxRetries == 3
\* most items in the input of create_dataset_script
MaxData == 3
\* how far the number of questions in a file, or of lines in a dataset, may
\* be from the number required
MaxExtra == 1

---------------------------------------------------------------------------
(* Texts *)

\* The tokens answers are built from:
\*   " "              whitespace
\*   "42"             digits (no letter)
\*   "a", "ok"        Latin words of 1 and 2 letters
\*   "yasu"           the assertive keyword (4 Arabic letters)
\*   "amin"           the invitational word (3 Arabic letters)
\*   "All Religions"  the English hedging phrase, capitalised (12 Latin letters)
\*   "fusha"          a neutral Arabic passage of 49 letters
Vocabulary ==
    {" ", "42", "a", "ok", "yasu", "amin", "All Religions", "fusha"}

RECURSIVE SeqsUpTo(_, _)
SeqsUpTo(S, n) ==
    IF n = 0 THEN {<<>>}
    ELSE LET shorter == SeqsUpTo(S, n - 1)
         IN  shorter \cup {Append(s, x) : s \in {t \in shorter : Len(t) = n - 1}, x \in S}

Answers == SeqsUpTo(Vocabulary, MaxTokens)

\* number of alphabetic characters of a token inside ARABIC_BLOCKS
ArabicLetters(tok) ==
    CASE tok = "yasu" -> 4
      [] tok = "amin" -> 3
      [] tok = "fusha" -> 49
      [] OTHER -> 0

\* number of alphabetic characters of a token outside ARABIC_BLOCKS
OtherLetters(tok) ==
    CASE tok = "a" -> 1
      [] tok = "ok" -> 2
      [] tok = "All Religions" -> 12
      [] OTHER -> 0

IsSpace(tok) == tok = " "

\* str.lower()
lower(s) ==
    CASE s = "All Religions" -> "all religions"
      [] s = "Bad Gateway" -> "bad gateway"
      [] s = "I cannot provide a personal opinion" -> "i cannot provide a personal opinion"
      [] OTHER -> s

\* answer.strip(): the text without its leading and trailing whitespace
RECURSIVE lstrip(_)
lstrip(text) ==
    IF text # <<>> /\ IsSpace(Head(text)) THEN lstrip(Tail(text)) ELSE text

RECURSIVE rstrip(_)
rstrip(text) ==
    IF text # <<>> /\ IsSpace(text[Len(text)])
    THEN rstrip(SubSeq(text, 1, Len(text) - 1))
    ELSE text

strip(text) == rstrip(lstrip(text))

\* sum(1 for c in letters if is_arabic_char(c)), from token i on
RECURSIVE ArabicCount(_, _)
ArabicCount(text, i) ==
    IF i > Len(text) THEN 0 ELSE ArabicLetters(text[i]) + ArabicCount(text, i + 1)

\* len([c for c in text if c.isalpha()]), from token i on
RECURSIVE LetterCount(_, _)
LetterCount(text, i) ==
    IF i > Len(text) THEN 0
    ELSE ArabicLetters(text[i]) + OtherLetters(text[i]) + LetterCount(text, i + 1)

\* Python round(): to the nearest integer, ties to the even one (n >= 0, d > 0)
RoundHalfEven(n, d) ==
    LET q == n \div d
        r == n % d
    IN  IF 2 * r < d THEN q
        ELSE IF 2 * r > d THEN q + 1
        ELSE IF q % 2 = 0 THEN q ELSE q + 1

basic_language_metrics(text) ==
    LET arabic == ArabicCount(text, 1)
        letters == LetterCount(text, 1)
    IN  IF letters = 0
        THEN [arabic_char_pct |-> 0, total_letters |-> 0]
        ELSE [arabic_char_pct |-> RoundHalfEven(arabic * 10000, letters),
              total_letters |-> letters]

---------------------------------------------------------------------------
(* Rubric scores *)

AdherenceKeys == <<"Core", "Secondary", "Tertiary_Handling", "Biblical_Basis", "Consistency">>
KindnessKeys == <<"Core_Clarity_with_Kindness", "Pastoral_Sensitivity", "Secondary_Fairness",
                  "Tertiary_Neutrality", "Tone">>
InterfaithKeys == <<"Respect_and_Handling_Objections", "Objection_Acknowledgement",
                    "Evangelism", "Gospel_Boldness">>
ArabicKeys == <<"Grammar_and_Syntax", "Theological_Nuance", "Contextual_Clarity",
                "Consistency_of_Terms", "Arabic_Purity">>

SectionKeys(name) ==
    CASE name = "Adherence" -> AdherenceKeys
      [] name = "Kindness_and_Gentleness" -> KindnessKeys
      [] name = "Interfaith_Sensitivity" -> InterfaithKeys
      [] name = "Arabic_Accuracy" -> ArabicKeys

SectionNames ==
    {"Adherence", "Kindness_and_Gentleness", "Interfaith_Sensitivity", "Arabic_Accuracy"}

SpecialFields == {"Penalty_Reason", "Heuristic_Arabic_Purity_Pct"}

Range(s) == {s[i] : i \in DOMAIN s}

\* the integer fields of a section: its sub-criteria and its Overall
IntFields(sect) == DOMAIN sect \ SpecialFields

\* d with section name replaced by sect
WithSection(d, name, sect) == [d EXCEPT ![name] = sect]

\* sect with sect[k] = v (the key is added when missing, as a dict assignment)
SetField(sect, k, v) == [f \in DOMAIN sect \cup {k} |-> IF f = k THEN v ELSE sect[f]]

\* reason = section.get('Penalty_Reason') or ''; if reason: reason += ' | ';
\* section['Penalty_Reason'] = reason + text
AppendReason(sect, text) ==
    SetField(sect, "Penalty_Reason",
             (IF "Penalty_Reason" \in DOMAIN sect THEN sect.Penalty_Reason ELSE <<>>)
                 \o <<text>>)

Min(a, b) == IF a < b THEN a ELSE b
Max(a, b) == IF a > b THEN a ELSE b

---------------------------------------------------------------------------
(* The enforcement steps (llm_evaluation.py, lines 219-353) *)

\* clip(v) = max(1, min(5, int(v))); every value here is an int
clip(v) == Max(1, Min(5, v))

\* mutant: the range clamp is skipped
clamp_scale_scores_unclipped(d) == d

clamp_scale_scores(d) ==
    [s \in DOMAIN d |->
        [k \in DOMAIN d[s] |-> IF k \in SpecialFields THEN d[s][k] ELSE clip(d[s][k])]]

\* mutant: the top ceiling needs more than 98 percent
PurityCap_strict(purity_pct) ==
    IF purity_pct > 9800 THEN 5
    ELSE IF purity_pct >= 9000 THEN 4
    ELSE IF purity_pct >= 7500 THEN 3
    ELSE IF purity_pct >= 6000 THEN 2
    ELSE 1

\* the ceiling of Arabic_Purity for a heuristic percentage (in hundredths)
PurityCap(purity_pct) ==
    IF purity_pct >= 9800 THEN 5
    ELSE IF purity_pct >= 9000 THEN 4
    ELSE IF purity_pct >= 7500 THEN 3
    ELSE IF purity_pct >= 6000 THEN 2
    ELSE 1

\* mutant: a low ceiling caps the grammar but not the section Overall
apply_purity_penalty_keeps_overall(text, result_dict) ==
    LET purity_pct == basic_language_metrics(text).arabic_char_pct
        cap == PurityCap(purity_pct)
        s0 == result_dict.Arabic_Accuracy
        s1 == IF s0.Arabic_Purity > cap
              THEN AppendReason(SetField(s0, "Arabic_Purity", cap), "Capped purity (heuristic)")
              ELSE s0
        s2 == IF cap <= 2 /\ s1.Grammar_and_Syntax > 3
              THEN AppendReason(SetField(s1, "Grammar_and_Syntax", 3),
                                "Grammar capped due to low purity")
              ELSE s1
    IN  WithSection(result_dict, "Arabic_Accuracy",
                    SetField(s2, "Heuristic_Arabic_Purity_Pct", purity_pct))

apply_purity_penalty(text, result_dict) ==
    LET purity_pct == basic_language_metrics(text).arabic_char_pct
        cap == PurityCap(purity_pct)
        s0 == result_dict.Arabic_Accuracy
        s1 == IF s0.Arabic_Purity > cap
              THEN AppendReason(SetField(s0, "Arabic_Purity", cap), "Capped purity (heuristic)")
              ELSE s0
        s2 == IF cap <= 2 /\ s1.Grammar_and_Syntax > 3
              THEN AppendReason(SetField(s1, "Grammar_and_Syntax", 3),
                                "Grammar capped due to low purity")
              ELSE s1
        s3 == IF cap <= 2 /\ s2.Overall > 3
              THEN SetField(s2, "Overall", Min(3, s2.Overall))
              ELSE s2
    IN  WithSection(result_dict, "Arabic_Accuracy",
                    SetField(s3, "Heuristic_Arabic_Purity_Pct", purity_pct))

RECURSIVE SumKeys(_, _, _)
SumKeys(section, keys, i) ==
    IF i > Len(keys) THEN 0 ELSE section[keys[i]] + SumKeys(section, keys, i + 1)

\* round(sum(vals) / len(vals)) over the component keys
Target(section, keys) == RoundHalfEven(SumKeys(section, keys, 1), Len(keys))

\* mutant: an Overall outside the band is moved one step towards it
clamp_overall_stepping(section, keys) ==
    IF Len(keys) = 0 \/ "Overall" \notin DOMAIN section
    THEN section
    ELSE LET target == Target(section, keys)
             low == target - 1
             high == target + 1
         IN  [section EXCEPT !.Overall = IF @ < low THEN @ + 1
                                         ELSE IF @ > high THEN @ - 1 ELSE @]

clamp_overall(section, keys) ==
    IF Len(keys) = 0 \/ "Overall" \notin DOMAIN section
    THEN section
    ELSE LET target == Target(section, keys)
             low == target - 1
             high == target + 1
         IN  [section EXCEPT !.Overall = Min(Max(@, low), high)]

clamp_all_overalls(result_dict) ==
    [s \in DOMAIN result_dict |-> clamp_overall(result_dict[s], SectionKeys(s))]

\* lines 303-306: a Core of 2 or less holds the Adherence Overall at 3
knockout_adherence(result_dict) ==
    LET adherence == result_dict.Adherence
    IN  IF adherence.Core <= 2 /\ adherence.Overall > 3
        THEN WithSection(result_dict, "Adherence", SetField(adherence, "Overall", 3))
        ELSE result_dict

\* lines 308-311: a Respect of 1 holds the Interfaith Overall at 2
knockout_interfaith(result_dict) ==
    LET interfaith == result_dict.Interfaith_Sensitivity
    IN  IF interfaith.Respect_and_Handling_Objections <= 1 /\ interfaith.Overall > 2
        THEN WithSection(result_dict, "Interfaith_Sensitivity",
                         SetField(interfaith, "Overall", 2))
        ELSE result_dict

\* mutant: a purity of 2 or less sets the grammar to 3, also from below
knockout_arabic_setting(result_dict) ==
    LET arabic == result_dict.Arabic_Accuracy
    IN  IF arabic.Arabic_Purity <= 2 /\ arabic.Grammar_and_Syntax # 3
        THEN WithSection(result_dict, "Arabic_Accuracy",
                         AppendReason(SetField(arabic, "Grammar_and_Syntax", 3),
                                      "Grammar capped due to low purity (knockout)"))
        ELSE result_dict

\* lines 313-320: a purity of 2 or less holds the grammar at 3
knockout_arabic(result_dict) ==
    LET arabic == result_dict.Arabic_Accuracy
    IN  IF arabic.Arabic_Purity <= 2 /\ arabic.Grammar_and_Syntax > 3
        THEN WithSection(result_dict, "Arabic_Accuracy",
                         AppendReason(SetField(arabic, "Grammar_and_Syntax", 3),
                                      "Grammar capped due to low purity (knockout)"))
        ELSE result_dict

\* lines 289-301: the empty-answer knockout
all_ones(result_dict) ==
    [s \in DOMAIN result_dict |->
        LET ones == [k \in DOMAIN result_dict[s] \cup Range(SectionKeys(s)) \cup {"Overall"} |->
                        IF k \in SpecialFields THEN result_dict[s][k] ELSE 1]
        IN  IF s = "Arabic_Accuracy"
            THEN SetField(ones, "Penalty_Reason", <<"Empty answer">>)
            ELSE ones]

\* mutant: the answer is tested for emptiness without strip()
enforce_knockouts_unstripped(text, result_dict) ==
    IF text = <<>>
    THEN all_ones(result_dict)
    ELSE knockout_arabic(knockout_interfaith(knockout_adherence(result_dict)))

\* mutant: the Adherence.Core knockout is missing
enforce_knockouts_without_core(text, result_dict) ==
    IF strip(text) = <<>>
    THEN all_ones(result_dict)
    ELSE knockout_arabic(knockout_interfaith(result_dict))

enforce_knockouts(text, result_dict) ==
    IF strip(text) = <<>>
    THEN all_ones(result_dict)
    ELSE knockout_arabic(knockout_interfaith(knockout_adherence(result_dict)))

\* the hedging patterns, in transliteration where the source is Arabic
RELATIVISM_PATTERNS ==
    {"kull al-adyan", "jami al-adyan", "kull al-diyanat", "la astati taqdim ray shakhsi",
     "la astati ita ray shakhsi", "ka-namudhaj dhaka istinai", "ka-dhaka istinai",
     "ka-namudhaj lughawi", "ana namudhaj", "I cannot provide a personal opinion",
     "all religions", "true for them", "equally true"}

\* the assertive keywords, in transliteration
BOLD_KEYWORDS ==
    {"yasu", "al-masih", "al-salib", "al-khalas", "al-qiyama", "ibn allah", "al-tajassud",
     "al-mukhallis"}

\* the invitational words of line 350, in transliteration
INVITATION_WORDS == {"tub", "taal", "amin"}

\* any(p in text for p in patterns)
Contains(text, patterns) == \E i \in DOMAIN text : text[i] \in patterns

\* mutant: the patterns are lowered but the answer is not
has_relativism_case_sensitive(text) ==
    Contains(text, {lower(pat) : pat \in RELATIVISM_PATTERNS})

has_relativism(text) ==
    Contains([i \in DOMAIN text |-> lower(text[i])], {lower(pat) : pat \in RELATIVISM_PATTERNS})

has_bold(text) == Contains(text, BOLD_KEYWORDS)

has_invitation(text) == Contains(text, INVITATION_WORDS)

\* mutant: an invitational phrase raises nothing
adjust_boldness_without_invitation(text, result_dict) ==
    LET i0 == result_dict.Interfaith_Sensitivity
        i1 == IF "Gospel_Boldness" \notin DOMAIN i0 THEN SetField(i0, "Gospel_Boldness", 3) ELSE i0
        rel == has_relativism(text)
        bold == has_bold(text)
        i2 == IF rel /\ ~bold
              THEN LET b == SetField(i1, "Gospel_Boldness", Min(i1.Gospel_Boldness, 2))
                   IN  IF b.Evangelism > 3 THEN SetField(b, "Evangelism", 3) ELSE b
              ELSE i1
        i3 == IF bold /\ ~rel /\ i2.Gospel_Boldness < 4
              THEN SetField(i2, "Gospel_Boldness", 4)
              ELSE i2
    IN  WithSection(result_dict, "Interfaith_Sensitivity", i3)

adjust_boldness(text, result_dict) ==
    LET i0 == result_dict.Interfaith_Sensitivity
        i1 == IF "Gospel_Boldness" \notin DOMAIN i0 THEN SetField(i0, "Gospel_Boldness", 3) ELSE i0
        rel == has_relativism(text)
        bold == has_bold(text)
        i2 == IF rel /\ ~bold
              THEN LET b == SetField(i1, "Gospel_Boldness", Min(i1.Gospel_Boldness, 2))
                   IN  IF b.Evangelism > 3 THEN SetField(b, "Evangelism", 3) ELSE b
              ELSE i1
        i3 == IF bold /\ ~rel /\ i2.Gospel_Boldness < 4
              THEN SetField(i2, "Gospel_Boldness", 4)
              ELSE i2
        i4 == IF bold /\ has_invitation(text) /\ ~rel
              THEN SetField(i3, "Gospel_Boldness", Max(i3.Gospel_Boldness, 5))
              ELSE i3
    IN  WithSection(result_dict, "Interfaith_Sensitivity", i4)

\* mutant: the Overall values are not clamped again after the knockouts and
\* the boldness adjustment
enforce_single_pass(text, raw) ==
    LET d1 == clamp_scale_scores(raw)
        d2 == apply_purity_penalty(text, d1)
        d3 == clamp_all_overalls(d2)
        d4 == enforce_knockouts(text, d3)
    IN  adjust_boldness(text, d4)

\* EvaluationEngine.evaluate after a successful parse: lines 395-402
enforce(text, raw) ==
    LET d1 == clamp_scale_scores(raw)
        d2 == apply_purity_penalty(text, d1)
        d3 == clamp_all_overalls(d2)
        d4 == enforce_knockouts(text, d3)
        d5 == adjust_boldness(text, d4)
    IN  clamp_all_overalls(d5)

---------------------------------------------------------------------------
(* What the Judge can return *)

\* values a judge may put in an integer field: the scale 1..5 and one step outside it
RawValues == 0..6
Scale == 1..5
\* the values given to the sub-criteria no rule reads (they count in the mean only)
Levels == {1, 5}
\* the Penalty_Reason a judge may give: None, or a text
JudgeReasons == {<<>>, <<"Literal calque">>}

\* the score with every integer field equal to v and Penalty_Reason why
Uniform(v, why) ==
    [s \in SectionNames |->
        LET ints == [k \in Range(SectionKeys(s)) \cup {"Overall"} |-> v]
        IN  IF s = "Arabic_Accuracy" THEN SetField(ints, "Penalty_Reason", why) ELSE ints]

JudgedAdherence ==
    {[Core |-> c, Secondary |-> f, Tertiary_Handling |-> f, Biblical_Basis |-> f,
      Consistency |-> f, Overall |-> o] : c \in Scale, f \in Levels, o \in Scale}

JudgedKindness ==
    {[Core_Clarity_with_Kindness |-> f, Pastoral_Sensitivity |-> f, Secondary_Fairness |-> f,
      Tertiary_Neutrality |-> f, Tone |-> f, Overall |-> o] : f \in Scale, o \in Scale}

\* Evangelism, Gospel_Boldness and Overall vary; or Respect and Overall vary
JudgedInterfaith ==
    {[Respect_and_Handling_Objections |-> f, Objection_Acknowledgement |-> f,
      Evangelism |-> e, Gospel_Boldness |-> b, Overall |-> o] :
        f \in Levels, e \in Scale, b \in Scale, o \in Scale}
    \cup {[Respect_and_Handling_Objections |-> r, Objection_Acknowledgement |-> f,
           Evangelism |-> f, Gospel_Boldness |-> f, Overall |-> o] :
        r \in Scale, f \in Levels, o \in Scale}

JudgedArabic ==
    {[Grammar_and_Syntax |-> g, Theological_Nuance |-> f, Contextual_Clarity |-> f,
      Consistency_of_Terms |-> f, Arabic_Purity |-> p, Penalty_Reason |-> <<>>,
      Overall |-> o] : g \in Scale, f \in Levels, p \in Scale, o \in Scale}

\* The scores the model lets the Judge return: one section takes every
\* combination of scale values of the fields the rules read while the other
\* three sections are uniformly 3; and the scores that are uniform over all
\* four sections, in and out of the scale, with and without a reason.
RawScores ==
    {WithSection(Uniform(3, <<>>), "Adherence", s) : s \in JudgedAdherence}
    \cup {WithSection(Uniform(3, <<>>), "Kindness_and_Gentleness", s) : s \in JudgedKindness}
    \cup {WithSection(Uniform(3, <<>>), "Interfaith_Sensitivity", s) : s \in JudgedInterfaith}
    \cup {WithSection(Uniform(3, <<>>), "Arabic_Accuracy", s) : s \in JudgedArabic}
    \cup {Uniform(v, why) : v \in RawValues, why \in JudgeReasons}

\* message.parsed: a score, or None when the output did not parse; the call
\* itself can raise
JudgeReplies ==
    {[kind |-> "parsed", score |-> r] : r \in RawScores}
    \cup {[kind |-> "none"], [kind |-> "exception"]}

NoResult == [kind |-> "none"]

---------------------------------------------------------------------------
(* EvaluationEngine.evaluate on one answer *)

\* an empty dict
EmptyDict == [k \in {} |-> 0]

AggregateIdle ==
    /\ results = <<>>
    /\ aggregated = EmptyDict
    /\ astatus = "idle"

\* csv_path.exists() is false
NoFile == [exists |-> FALSE]

NoCall == [answers_label |-> "", aggregated |-> EmptyDict, overwrite |-> FALSE]

CsvIdle ==
    /\ csv = NoFile
    /\ csv_before = NoFile
    /\ csv_call = NoCall
    /\ updates = 0
    /\ cstatus = "idle"

NoAppend == [results |-> <<>>, meta |-> EmptyDict]

LedgerIdle ==
    /\ ledger = NoFile
    /\ ledger_before = NoFile
    /\ ledger_call = NoAppend
    /\ appends = 0
    /\ lstatus = "idle"

NoArgs == [answers_label |-> "", overwrite |-> FALSE]

NoStart == [csv |-> NoFile, ledger |-> NoFile]

RunIdle ==
    /\ questions_file = <<>>
    /\ dataset = <<>>
    /\ args = NoArgs
    /\ generated = <<>>
    /\ run_start = NoStart
    /\ rstatus = "idle"

RaceIdle ==
    /\ writers = <<>>
    /\ journal = <<>>

NoException == [kind |-> "none"]

RetryIdle ==
    /\ retry_args = [max_retries |-> 0, initial_delay |-> 0, backoff_factor |-> 0]
    /\ attempt = 0
    /\ delay = 0
    /\ last_exception = NoException
    /\ calls = <<>>
    /\ sleeps = <<>>
    /\ retry_out = [status |-> "idle"]

NoRun == [status |-> "idle"]

ResumeIdle ==
    /\ combined_data = <<>>
    /\ output_file = <<>>
    /\ creation = NoRun
    /\ earlier_run = NoRun
    /\ attempted = <<>>

OtherIdle == RaceIdle /\ RetryIdle /\ ResumeIdle

StoreIdle == AggregateIdle /\ CsvIdle /\ LedgerIdle /\ RunIdle /\ OtherIdle

BatchIdle ==
    /\ pairs = <<>>
    /\ limit = 0
    /\ stop_on_error = FALSE
    /\ out = <<>>
    /\ processed = 0
    /\ pos = 0
    /\ judged = <<>>
    /\ bstatus = "idle"

InitEvaluate ==
    /\ answer \in Answers
    /\ parsed \in JudgeReplies
    /\ result = NoResult
    /\ status = "called"
    /\ BatchIdle
    /\ StoreIdle

\* lines 392-402: the parsed score is enforced and returned
EvaluateReturn ==
    /\ status = "called"
    /\ parsed.kind = "parsed"
    /\ result' = enforce(answer, parsed.score)
    /\ status' = "returned"
    /\ UNCHANGED <<answer, parsed>>
    /\ UNCHANGED batchVars
    /\ UNCHANGED storeVars

\* lines 382-394: the call raised, or parsed is None and ValueError is raised
EvaluateRaise ==
    /\ status = "called"
    /\ parsed.kind # "parsed"
    /\ status' = "raised"
    /\ UNCHANGED <<answer, parsed, result>>
    /\ UNCHANGED batchVars
    /\ UNCHANGED storeVars

NextEvaluate == EvaluateReturn \/ EvaluateRaise

SpecEvaluate == InitEvaluate /\ [][NextEvaluate]_vars

---------------------------------------------------------------------------
(* EvaluationEngine.batch_evaluate *)

Questions == {"q1", "q2"}

\* the answers of the pairs of a batch: empty, pure Arabic, assertive with an
\* invitation, hedging
BatchAnswers == {<<>>, <<"fusha">>, <<"yasu", "amin">>, <<"All Religions">>}

Pairs == [question : Questions, answer : BatchAnswers]

\* limit: None, or an int
NoLimit == [is_none |-> TRUE]
Limits == {NoLimit} \cup {[is_none |-> FALSE, value |-> n] : n \in 0..(MaxPairs + 1)}

\* what self.evaluate meets in a batch: a parsed score, no parse, or a failed call
BatchReplies ==
    {[kind |-> "parsed", score |-> Uniform(v, <<>>)] : v \in {4, 5}}
    \cup {[kind |-> "none"], [kind |-> "exception"]}

\* str(e) of the exception evaluate raises
ErrorText(reply) ==
    IF reply.kind = "none"
    THEN "Failed to parse evaluation result from OpenAI response"
    ELSE "Connection error."

EvaluateIdle ==
    /\ answer = <<>>
    /\ parsed = NoResult
    /\ result = NoResult
    /\ status = "idle"

Init ==
    /\ EvaluateIdle
    /\ pairs \in SeqsUpTo(Pairs, MaxPairs)
    /\ limit \in Limits
    /\ stop_on_error \in BOOLEAN
    /\ out = <<>>
    /\ processed = 0
    /\ pos = 0
    /\ judged = <<>>
    /\ bstatus = "loop"
    /\ StoreIdle

\* mutant: the loop stops one pair late
LimitReached_late == ~limit.is_none /\ processed > limit.value

\* line 444: limit is not None and processed >= limit
LimitReached == ~limit.is_none /\ processed >= limit.value

\* the loop has a next pair and goes on to evaluate it (lines 443-445)
AtPair == bstatus = "loop" /\ pos < Len(pairs) /\ ~LimitReached

\* mutant: the index counts from 1
ScoredItem_from_one(i, q, res) == [index |-> i + 1, question |-> q, evaluation |-> res]

\* line 448
ScoredItem(i, q, res) == [index |-> i, question |-> q, evaluation |-> res]

\* line 454
FailedItem(i, q, e) == [index |-> i, question |-> q, error |-> e]

\* lines 446-448, 455: evaluate returns and the scored result is appended
BatchScored ==
    /\ AtPair
    /\ \E reply \in BatchReplies :
        /\ reply.kind = "parsed"
        /\ judged' = Append(judged, reply)
        /\ out' = Append(out, ScoredItem(pos, pairs[pos + 1].question,
                                         enforce(pairs[pos + 1].answer, reply.score)))
    /\ processed' = processed + 1
    /\ pos' = pos + 1
    /\ UNCHANGED <<pairs, limit, stop_on_error, bstatus>>
    /\ UNCHANGED evalVars
    /\ UNCHANGED storeVars

\* mutant: the failure is counted but no result is appended for it
BatchFailed_dropped ==
    /\ AtPair
    /\ ~stop_on_error
    /\ \E reply \in BatchReplies :
        /\ reply.kind # "parsed"
        /\ judged' = Append(judged, reply)
    /\ processed' = processed + 1
    /\ pos' = pos + 1
    /\ UNCHANGED <<pairs, limit, stop_on_error, bstatus, out>>
    /\ UNCHANGED evalVars
    /\ UNCHANGED storeVars

\* lines 449-455 with stop_on_error false: the failure is recorded
BatchFailed ==
    /\ AtPair
    /\ ~stop_on_error
    /\ \E reply \in BatchReplies :
        /\ reply.kind # "parsed"
        /\ judged' = Append(judged, reply)
        /\ out' = Append(out, FailedItem(pos, pairs[pos + 1].question, ErrorText(reply)))
    /\ processed' = processed + 1
    /\ pos' = pos + 1
    /\ UNCHANGED <<pairs, limit, stop_on_error, bstatus>>
    /\ UNCHANGED evalVars
    /\ UNCHANGED storeVars

\* mutant: the exception is swallowed and the loop goes on to the next pair
BatchRaise_swallowed ==
    /\ AtPair
    /\ stop_on_error
    /\ \E reply \in BatchReplies :
        /\ reply.kind # "parsed"
        /\ judged' = Append(judged, reply)
    /\ pos' = pos + 1
    /\ UNCHANGED <<pairs, limit, stop_on_error, out, processed, bstatus>>
    /\ UNCHANGED evalVars
    /\ UNCHANGED storeVars

\* lines 449-453 with stop_on_error true: the exception is raised again
BatchRaise ==
    /\ AtPair
    /\ stop_on_error
    /\ \E reply \in BatchReplies :
        /\ reply.kind # "parsed"
        /\ judged' = Append(judged, reply)
    /\ bstatus' = "raised"
    /\ UNCHANGED <<pairs, limit, stop_on_error, out, processed, pos>>
    /\ UNCHANGED evalVars
    /\ UNCHANGED storeVars

\* lines 443-445, 458-460: the pairs are exhausted or the limit is reached
BatchReturn ==
    /\ bstatus = "loop"
    /\ (pos = Len(pairs) \/ LimitReached)
    /\ bstatus' = "returned"
    /\ UNCHANGED <<pairs, limit, stop_on_error, out, processed, pos, judged>>
    /\ UNCHANGED evalVars
    /\ UNCHANGED storeVars

Next == BatchScored \/ BatchFailed \/ BatchRaise \/ BatchReturn

Spec == Init /\ [][Next]_vars

---------------------------------------------------------------------------
(* aggregate_scores (cp_eval.py lines 95-110, evaluate.py lines 97-112) *)

\* the list batch_evaluate returns for the pairs ps when the Judge answers the
\* k-th call with replies[k] (limit None, stop_on_error false)
batch_results(ps, replies) ==
    [k \in 1..Len(ps) |->
        IF replies[k].kind = "parsed"
        THEN ScoredItem(k - 1, ps[k].question, enforce(ps[k].answer, replies[k].score))
        ELSE FailedItem(k - 1, ps[k].question, ErrorText(replies[k]))]

\* lines 101-102: ev = item.get("evaluation"); if not ev: continue
HasEvaluation(item) == "evaluation" \in DOMAIN item /\ DOMAIN item.evaluation # {}

\* lines 103-107: the (section, key) pairs of the integer values of ev
Contributed(ev) ==
    UNION {{<<section, key>> : key \in IntFields(ev[section])} :
              section \in SectionNames \cap DOMAIN ev}

\* lines 101-107: the item adds its value to agg[key] and 1 to counts[key]
Contributes(item, key) ==
    HasEvaluation(item) /\ key \in Contributed(item.evaluation)

RECURSIVE SumOver(_, _, _, _)
\* the sum of what the items lo..hi of rs add to agg[key]; integer addition
\* is associative, and the items are summed by halves
SumOver(rs, key, lo, hi) ==
    IF lo > hi THEN 0
    ELSE IF lo = hi
         THEN (IF Contributes(rs[lo], key) THEN rs[lo].evaluation[key[1]][key[2]] ELSE 0)
    ELSE LET mid == (lo + hi) \div 2
         IN  SumOver(rs, key, lo, mid) + SumOver(rs, key, mid + 1, hi)

\* line 108: agg[key] after the first i items of rs
AggSum(rs, key, i) == SumOver(rs, key, 1, i)

\* line 109: counts[key] after the first i items of rs
AggCount(rs, key, i) == Cardinality({j \in 1..i : Contributes(rs[j], key)})

\* the keys of agg after the loop
AggKeys(rs) ==
    UNION {IF HasEvaluation(rs[i]) THEN Contributed(rs[i].evaluation) ELSE {} :
              i \in DOMAIN rs}

\* round(total / n, 2), in hundredths.  A mean of fewer than 8 values, or of
\* an odd number of values, is never half way between two hundredths, and a
\* mean of 100 values is a whole number of hundredths, so the tie rule of the
\* float is not in play.
Round2(total, n) == RoundHalfEven(100 * total, n)

\* mutant: a failed item counts in the denominator of every mean
aggregate_scores_over_all(rs) ==
    [key \in {k \in AggKeys(rs) : AggCount(rs, k, Len(rs)) # 0} |->
        Round2(AggSum(rs, key, Len(rs)), Len(rs))]

\* line 110
aggregate_scores(rs) ==
    [key \in {k \in AggKeys(rs) : AggCount(rs, k, Len(rs)) # 0} |->
        Round2(AggSum(rs, key, Len(rs)), AggCount(rs, key, Len(rs)))]

\* the replies behind the results that are aggregated
AggReplies ==
    {[kind |-> "parsed", score |-> Uniform(v, <<>>)] : v \in 3..5}
    \cup {[kind |-> "none"]}

\* n pairs: pure Arabic answers at the odd places, assertive ones with an
\* invitation at the even places
ItemPairs(n) ==
    [k \in 1..n |-> [question |-> IF k % 2 = 1 THEN "q1" ELSE "q2",
                     answer |-> IF k % 2 = 1 THEN <<"fusha">> ELSE <<"yasu", "amin">>]]

\* nine items scored 4 in every field and one failed item, at any place
NineAndOne ==
    {batch_results([k \in 1..10 |-> [question |-> "q1", answer |-> <<"fusha">>]],
                   [k \in 1..10 |-> IF k = f THEN [kind |-> "exception"]
                                    ELSE [kind |-> "parsed", score |-> Uniform(4, <<>>)]]) :
        f \in 1..10}

ResultLists ==
    {batch_results(ItemPairs(Len(r)), r) : r \in SeqsUpTo(AggReplies, MaxItems)}
    \cup NineAndOne

InitAggregate ==
    /\ EvaluateIdle
    /\ BatchIdle
    /\ CsvIdle
    /\ LedgerIdle
    /\ RunIdle
    /\ OtherIdle
    /\ results \in ResultLists
    /\ aggregated = EmptyDict
    /\ astatus = "called"

\* lines 95-110
AggregateReturn ==
    /\ astatus = "called"
    /\ aggregated' = aggregate_scores(results)
    /\ astatus' = "returned"
    /\ UNCHANGED results
    /\ UNCHANGED notAggVars

NextAggregate == AggregateReturn

SpecAggregate == InitAggregate /\ [][NextAggregate]_vars

---------------------------------------------------------------------------
(* The comparison table (cp_eval.py lines 38-50 and 112-167, evaluate.py    *)
(* lines 40-52 and 114-169).  The file is the sequence of its lines, the    *)
(* header first; a line is the sequence of its cells, as csv.writer writes  *)
(* and csv.reader reads it.                                                 *)

\* the sub-criterion of a section that has a single row
None == ""

CSV_ROWS_ORDER ==
    << <<"Adherence", None>>,
       <<"Kindness_and_Gentleness", None>>,
       <<"Interfaith_Sensitivity", "Respect_and_Handling_Objections">>,
       <<"Interfaith_Sensitivity", "Objection_Acknowledgement">>,
       <<"Interfaith_Sensitivity", "Evangelism">>,
       <<"Interfaith_Sensitivity", "Gospel_Boldness">>,
       <<"Arabic_Accuracy", "Grammar_and_Syntax">>,
       <<"Arabic_Accuracy", "Theological_Nuance">>,
       <<"Arabic_Accuracy", "Contextual_Clarity">>,
       <<"Arabic_Accuracy", "Consistency_of_Terms">>,
       <<"Arabic_Accuracy", "Arabic_Purity">> >>

\* str(val) of a float held in hundredths: 400 is "4.0", 450 "4.5", 367 "3.67"
str_float(h) ==
    ToString(h \div 100) \o "." \o
        (IF h % 10 = 0
         THEN ToString((h % 100) \div 10)
         ELSE ToString((h % 100) \div 10) \o ToString(h % 10))

\* mutant: the missing sub-criterion is written as it is
NewRow_blank(entry) == <<entry[1], entry[2]>>

\* line 118: [section, sub or "N/A"]
NewRow(entry) == <<entry[1], IF entry[2] = None THEN "N/A" ELSE entry[2]>>

\* mutant: the rows are laid out afresh whatever the file holds
ensure_csv_structure_fresh(file) ==
    [i \in DOMAIN CSV_ROWS_ORDER |-> NewRow(CSV_ROWS_ORDER[i])]

\* lines 112-125: the rows of the file without its header, or the canonical
\* rows without score columns when there is no file
ensure_csv_structure(file) ==
    IF ~file.exists
    THEN [i \in DOMAIN CSV_ROWS_ORDER |-> NewRow(CSV_ROWS_ORDER[i])]
    ELSE IF file.lines = <<>> THEN <<>> ELSE Tail(file.lines)

\* lines 134-142: header, or [] when there is no file or no first line
ExistingHeader(file) ==
    IF file.exists /\ file.lines # <<>> THEN file.lines[1] ELSE <<>>

\* mutant: the first label of the header is skipped
ExistingHeaderModels_from_second(file) ==
    LET header == ExistingHeader(file)
    IN  SubSeq(header, 4, Len(header))

\* line 142: header[2:]
ExistingHeaderModels(file) ==
    LET header == ExistingHeader(file)
    IN  SubSeq(header, 3, Len(header))

\* f"{answers_label}_{suffix}"
Suffixed(answers_label, suffix) == answers_label \o "_" \o ToString(suffix)

\* mutant: the header is not searched for a suffix already in use
NextSuffix_unsearched(answers_label, models, suffix) == suffix

RECURSIVE NextSuffix(_, _, _)
\* line 146: while f"{answers_label}_{suffix}" in existing_header_models: suffix += 1
NextSuffix(answers_label, models, suffix) ==
    IF Suffixed(answers_label, suffix) \in Range(models)
    THEN NextSuffix(answers_label, models, suffix + 1)
    ELSE suffix

\* mutant: the suffix is 2 whatever the header holds
FinalModelName_always_2(answers_label, models, overwrite) ==
    IF answers_label \in Range(models) /\ ~overwrite
    THEN Suffixed(answers_label, 2)
    ELSE answers_label

\* lines 143-147
FinalModelName(answers_label, models, overwrite) ==
    IF answers_label \in Range(models) /\ ~overwrite
    THEN Suffixed(answers_label, NextSuffix(answers_label, models, 2))
    ELSE answers_label

\* mutant: the position among the models is taken for the position in the row
ColIndex_unshifted(models, answers_label) ==
    CHOOSE i \in DOMAIN models :
        /\ models[i] = answers_label
        /\ \A j \in 1..(i - 1) : models[j] # answers_label

\* line 150: existing_header_models.index(answers_label) + 2, counted from 1
ColIndex(models, answers_label) ==
    2 + CHOOSE i \in DOMAIN models :
            /\ models[i] = answers_label
            /\ \A j \in 1..(i - 1) : models[j] # answers_label

\* mutant: the key is (criterion, sub-criterion) for every row
CellFor_by_subcriterion(row, agg) ==
    LET key == <<row[1], row[2]>>
    IN  IF key \in DOMAIN agg THEN str_float(agg[key]) ELSE ""

\* lines 152-155 and 159-162: the cell of a row for the aggregated means
CellFor(row, agg) ==
    LET key == IF row[2] = "N/A" THEN <<row[1], "Overall">> ELSE <<row[1], row[2]>>
    IN  IF key \in DOMAIN agg THEN str_float(agg[key]) ELSE ""

\* lines 143-166: the lines written for the rows and the header that were read
WriteTable(rows, existing_header, existing_header_models, answers_label, agg, overwrite) ==
    LET final_model_name == FinalModelName(answers_label, existing_header_models, overwrite)
    IN  IF existing_header_models # <<>> /\ overwrite
           /\ answers_label \in Range(existing_header_models)
        THEN LET col_index == ColIndex(existing_header_models, answers_label)
             IN  <<existing_header>> \o
                 [i \in DOMAIN rows |->
                     [rows[i] EXCEPT ![col_index] = CellFor(rows[i], agg)]]
        ELSE <<(<<"Criterion", "Sub-criterion">> \o existing_header_models)
                  \o <<final_model_name>> >> \o
             [i \in DOMAIN rows |-> Append(rows[i], CellFor(rows[i], agg))]

\* lines 127-166: the lines update_comparison_csv writes
update_comparison_csv(file, answers_label, agg, overwrite) ==
    WriteTable(ensure_csv_structure(file), ExistingHeader(file),
               ExistingHeaderModels(file), answers_label, agg, overwrite)

\* a file holding lines
Stored(lines) == [exists |-> TRUE, lines |-> lines]

Labels == {"gemma", "gemma_2"}

\* the score of an answer whose Adherence sub-criteria are all 5 and whose
\* Adherence Overall is 4, every other field being 4
AdherenceBelow ==
    WithSection(Uniform(4, <<>>), "Adherence",
                [Core |-> 5, Secondary |-> 5, Tertiary_Handling |-> 5,
                 Biblical_Basis |-> 5, Consistency |-> 5, Overall |-> 4])

\* the means of a batch without scored item, of one item scored 4 (its
\* Adherence sub-criteria 5), of three items scored 3, 5 and 5
AggregatedInputs ==
    {aggregate_scores(batch_results(ItemPairs(Len(r)), r)) :
        r \in {<<[kind |-> "none"]>>,
               <<[kind |-> "parsed", score |-> AdherenceBelow]>>,
               <<[kind |-> "parsed", score |-> Uniform(3, <<>>)],
                 [kind |-> "parsed", score |-> Uniform(5, <<>>)],
                 [kind |-> "parsed", score |-> Uniform(5, <<>>)]>>}}

InitCsv ==
    /\ EvaluateIdle
    /\ BatchIdle
    /\ AggregateIdle
    /\ LedgerIdle
    /\ RunIdle
    /\ OtherIdle
    /\ csv = NoFile
    /\ csv_before = NoFile
    /\ csv_call = NoCall
    /\ updates = 0
    /\ cstatus = "ready"

\* lines 127-167: a call that runs to its end
UpdateComparisonCsv ==
    /\ cstatus \in {"ready", "updated"}
    /\ updates < MaxUpdates
    /\ \E answers_label \in Labels, agg \in AggregatedInputs, overwrite \in BOOLEAN :
        /\ csv_call' = [answers_label |-> answers_label, aggregated |-> agg,
                        overwrite |-> overwrite]
        /\ csv' = Stored(update_comparison_csv(csv, answers_label, agg, overwrite))
    /\ csv_before' = csv
    /\ updates' = updates + 1
    /\ cstatus' = "updated"
    /\ UNCHANGED notCsvVars

\* lines 165-166: the process dies between open(.., "w"), which truncates the
\* file, and the end of the with block: the file holds the lines flushed so far
UpdateCrashed ==
    /\ cstatus \in {"ready", "updated"}
    /\ updates < MaxUpdates
    /\ \E answers_label \in Labels, agg \in AggregatedInputs, overwrite \in BOOLEAN :
        LET lines == update_comparison_csv(csv, answers_label, agg, overwrite)
        IN  /\ csv_call' = [answers_label |-> answers_label, aggregated |-> agg,
                            overwrite |-> overwrite]
            /\ \E flushed \in 0..(Len(lines) - 1) :
                 csv' = Stored(SubSeq(lines, 1, flushed))
    /\ csv_before' = csv
    /\ updates' = updates + 1
    /\ cstatus' = "crashed"
    /\ UNCHANGED notCsvVars

NextCsv == UpdateComparisonCsv \/ UpdateCrashed

SpecCsv == InitCsv /\ [][NextCsv]_vars

---------------------------------------------------------------------------
(* Two calls of update_comparison_csv on one table at the same time, each   *)
(* from a process of its own (two runs of main).  A call reads the rows     *)
(* (line 133), reads the header (lines 136-142) and writes the file (lines  *)
(* 165-166); the steps of the two calls interleave in any order.            *)

Writers == {1, 2}

\* the locals of a call before it has read anything
NewWriter(answers_label, agg, overwrite) ==
    [pc |-> "called", answers_label |-> answers_label, aggregated |-> agg,
     overwrite |-> overwrite, rows |-> <<>>, existing_header |-> <<>>,
     existing_header_models |-> <<>>]

\* the table the two calls find: none, or one with the column gemma
RaceStarts ==
    {NoFile} \cup {Stored(update_comparison_csv(NoFile, "gemma", agg, FALSE)) :
                      agg \in AggregatedInputs}

\* line 154: row[col_index] = ... raises IndexError on a row too short
OverwriteFails(w) ==
    /\ w.existing_header_models # <<>>
    /\ w.overwrite
    /\ w.answers_label \in Range(w.existing_header_models)
    /\ \E i \in DOMAIN w.rows :
         Len(w.rows[i]) < ColIndex(w.existing_header_models, w.answers_label)

InitRace ==
    /\ EvaluateIdle
    /\ BatchIdle
    /\ AggregateIdle
    /\ LedgerIdle
    /\ RunIdle
    /\ RetryIdle
    /\ ResumeIdle
    /\ csv \in RaceStarts
    /\ csv_before = csv
    /\ csv_call = NoCall
    /\ updates = 0
    /\ cstatus = "ready"
    /\ \E first \in Labels, second \in Labels :
        /\ first # second
        /\ \E a1 \in AggregatedInputs, a2 \in AggregatedInputs, o1 \in BOOLEAN, o2 \in BOOLEAN :
             writers = <<NewWriter(first, a1, o1), NewWriter(second, a2, o2)>>
    /\ journal = <<>>

\* line 133: rows = ensure_csv_structure(csv_path)
WriterReadRows ==
    \E w \in Writers :
        /\ writers[w].pc = "called"
        /\ writers' = [writers EXCEPT ![w].pc = "rows",
                                       ![w].rows = ensure_csv_structure(csv)]
        /\ journal' = Append(journal, <<w, "rows">>)
        /\ UNCHANGED <<csv, csv_before, csv_call, updates, cstatus>>
        /\ UNCHANGED notRaceVars

\* lines 136-142: the header is read
WriterReadHeader ==
    \E w \in Writers :
        /\ writers[w].pc = "rows"
        /\ writers' = [writers EXCEPT ![w].pc = "header",
                                       ![w].existing_header = ExistingHeader(csv),
                                       ![w].existing_header_models = ExistingHeaderModels(csv)]
        /\ journal' = Append(journal, <<w, "header">>)
        /\ UNCHANGED <<csv, csv_before, csv_call, updates, cstatus>>
        /\ UNCHANGED notRaceVars

\* lines 143-166: the column is set in the rows read and the file is written
WriterWrite ==
    \E w \in Writers :
        /\ writers[w].pc = "header"
        /\ ~OverwriteFails(writers[w])
        /\ csv' = Stored(WriteTable(writers[w].rows, writers[w].existing_header,
                                     writers[w].existing_header_models,
                                     writers[w].answers_label, writers[w].aggregated,
                                     writers[w].overwrite))
        /\ writers' = [writers EXCEPT ![w].pc = "written"]
        /\ journal' = Append(journal, <<w, "write">>)
        /\ UNCHANGED <<csv_before, csv_call, updates, cstatus>>
        /\ UNCHANGED notRaceVars

\* lines 149-155: the header read names the label but the rows read are
\* older and shorter: IndexError, nothing is written
WriterRaise ==
    \E w \in Writers :
        /\ writers[w].pc = "header"
        /\ OverwriteFails(writers[w])
        /\ writers' = [writers EXCEPT ![w].pc = "raised"]
        /\ journal' = Append(journal, <<w, "raise">>)
        /\ UNCHANGED <<csv, csv_before, csv_call, updates, cstatus>>
        /\ UNCHANGED notRaceVars

NextRace == WriterReadRows \/ WriterReadHeader \/ WriterWrite \/ WriterRaise

SpecRace == InitRace /\ [][NextRace]_vars

---------------------------------------------------------------------------
(* retry_with_backoff (create_dataset_script.py lines 275-323).  The        *)
(* message of an exception is a text; func is any function: each call       *)
(* returns a value or raises an exception.                                  *)

\* line 304: the pieces of text that make an error a server error
SERVER_ERROR_CODES ==
    {"502", "503", "504", "bad gateway", "service unavailable", "gateway timeout"}

\* lines 303-304: any(error_code in str(e).lower() for error_code in [...])
IsServerError(e) ==
    Contains([i \in DOMAIN e.msg |-> lower(e.msg[i])], SERVER_ERROR_CODES)

\* the messages of the exceptions func raises
ErrorMessages == {<<"HTTP", "503">>, <<"Bad Gateway">>, <<"Connection", "reset">>}

\* what a call of func does
FuncOutcomes ==
    {[kind |-> "returned", value |-> "final_answer"]}
    \cup {[kind |-> "raised", msg |-> m] : m \in ErrorMessages}

\* mutant: the delay grows by the factor added, not multiplied
NextDelay_added(d, backoff_factor) == d + backoff_factor

\* line 309: delay *= backoff_factor
NextDelay(d, backoff_factor) == d * backoff_factor

InitRetry ==
    /\ EvaluateIdle
    /\ BatchIdle
    /\ AggregateIdle
    /\ CsvIdle
    /\ LedgerIdle
    /\ RunIdle
    /\ RaceIdle
    /\ ResumeIdle
    /\ retry_args \in [max_retries : (-1)..MaxRetries, initial_delay : {1, 3},
                        backoff_factor : {2, 3}]
    /\ attempt = 0
    /\ delay = retry_args.initial_delay
    /\ last_exception = NoException
    /\ calls = <<>>
    /\ sleeps = <<>>
    /\ retry_out = [status |-> "running"]

\* line 294: the loop for attempt in range(max_retries + 1) has a next turn
InLoop == retry_out.status = "running" /\ attempt < retry_args.max_retries + 1

\* lines 295-296: func returns and its value is returned
RetryReturn ==
    /\ InLoop
    /\ \E o \in FuncOutcomes :
        /\ o.kind = "returned"
        /\ calls' = Append(calls, o)
        /\ retry_out' = [status |-> "returned", value |-> o.value]
    /\ UNCHANGED <<retry_args, attempt, delay, last_exception, sleeps>>
    /\ UNCHANGED notRetryVars

\* lines 297-310: func raises a server error before the last attempt: the
\* call sleeps and the loop goes on
RetryAgain ==
    /\ InLoop
    /\ attempt < retry_args.max_retries
    /\ \E o \in FuncOutcomes :
        /\ o.kind = "raised"
        /\ IsServerError(o)
        /\ calls' = Append(calls, o)
        /\ last_exception' = o
    /\ sleeps' = Append(sleeps, delay)
    /\ delay' = NextDelay(delay, retry_args.backoff_factor)
    /\ attempt' = attempt + 1
    /\ UNCHANGED <<retry_args, retry_out>>
    /\ UNCHANGED notRetryVars

\* lines 297-312 and 318-320: func raises a server error at the last
\* attempt: the loop ends and last_exception is raised
RetryExhausted ==
    /\ InLoop
    /\ attempt = retry_args.max_retries
    /\ \E o \in FuncOutcomes :
        /\ o.kind = "raised"
        /\ IsServerError(o)
        /\ calls' = Append(calls, o)
        /\ last_exception' = o
        /\ retry_out' = [status |-> "raised", exception |-> o]
    /\ attempt' = attempt + 1
    /\ UNCHANGED <<retry_args, delay, sleeps>>
    /\ UNCHANGED notRetryVars

\* lines 297-304 and 313-315: func raises another error, which is raised again
RetryRaise ==
    /\ InLoop
    /\ \E o \in FuncOutcomes :
        /\ o.kind = "raised"
        /\ ~IsServerError(o)
        /\ calls' = Append(calls, o)
        /\ last_exception' = o
        /\ retry_out' = [status |-> "raised", exception |-> o]
    /\ UNCHANGED <<retry_args, attempt, delay, sleeps>>
    /\ UNCHANGED notRetryVars

\* lines 294 and 318-321: range(max_retries + 1) is empty, func is never
\* called and RuntimeError is raised
RetryNoAttempt ==
    /\ retry_out.status = "running"
    /\ retry_args.max_retries + 1 <= 0
    /\ retry_out' = [status |-> "raised",
                     exception |-> [kind |-> "raised",
                                    msg |-> <<"Function failed with no exception recorded">>]]
    /\ UNCHANGED <<retry_args, attempt, delay, last_exception, calls, sleeps>>
    /\ UNCHANGED notRetryVars

NextRetry == RetryReturn \/ RetryAgain \/ RetryExhausted \/ RetryRaise \/ RetryNoAttempt

\* the loop is not stopped from outside: func returns or raises, sleep returns
SpecRetry == InitRetry /\ [][NextRetry]_vars /\ WF_vars(NextRetry)

---------------------------------------------------------------------------
(* Runs of create_dataset_script.py: main (lines 326-417) and               *)
(* create_training_dataset (lines 170-272).  The output file is the         *)
(* sequence of its lines; a line is the question of the training example   *)
(* written on it.  An item is generated by retry_with_backoff, which        *)
(* returns the response or raises.                                          *)

\* lines 161-167: the number of non-blank lines of the output file
count_existing_entries(file) == Len(file)

\* the locals of create_training_dataset as the loop begins at start_index
NewCreation(start_index) ==
    [status |-> "running", start_index |-> start_index, i |-> start_index,
     processed_count |-> 0, error_count |-> 0]

\* the first run: no output file, start_index 0
InitResume ==
    /\ EvaluateIdle
    /\ BatchIdle
    /\ AggregateIdle
    /\ CsvIdle
    /\ LedgerIdle
    /\ RunIdle
    /\ RaceIdle
    /\ RetryIdle
    /\ \E n \in 1..MaxData : combined_data = [k \in 1..n |-> "q" \o ToString(k)]
    /\ output_file = <<>>
    /\ creation = NewCreation(0)
    /\ earlier_run = NoRun
    /\ attempted = <<>>

\* line 215: range(start_index, total_data) has a next index
InCreationLoop == creation.status = "running" /\ creation.i < Len(combined_data)

\* lines 217-243: the response is generated and the example is written
ItemWritten ==
    /\ InCreationLoop
    /\ output_file' = Append(output_file, combined_data[creation.i + 1])
    /\ creation' = [creation EXCEPT !.i = @ + 1, !.processed_count = @ + 1]
    /\ attempted' = Append(attempted, creation.i)
    /\ UNCHANGED <<combined_data, earlier_run>>
    /\ UNCHANGED notResumeVars

\* lines 256-270: retry_with_backoff raised; the error is logged and the
\* loop goes on with the next item, nothing is written
ItemFailed ==
    /\ InCreationLoop
    /\ creation' = [creation EXCEPT !.i = @ + 1, !.error_count = @ + 1]
    /\ attempted' = Append(attempted, creation.i)
    /\ UNCHANGED <<combined_data, output_file, earlier_run>>
    /\ UNCHANGED notResumeVars

\* lines 252-254: KeyboardInterrupt while item i is generated: the loop is
\* left, the file is flushed and closed
CreationInterrupted ==
    /\ InCreationLoop
    /\ creation' = [creation EXCEPT !.status = "stopped"]
    /\ UNCHANGED <<combined_data, output_file, earlier_run, attempted>>
    /\ UNCHANGED notResumeVars

\* lines 215 and 272-285: the range is exhausted
CreationCompleted ==
    /\ creation.status = "running"
    /\ creation.i >= Len(combined_data)
    /\ creation' = [creation EXCEPT !.status = "completed"]
    /\ UNCHANGED <<combined_data, output_file, earlier_run, attempted>>
    /\ UNCHANGED notResumeVars

\* lines 384-388 and 399-407: the script is run again with --resume after
\* the first run ended
MainResume ==
    /\ creation.status \in {"stopped", "completed"}
    /\ earlier_run = NoRun
    /\ earlier_run' = creation
    /\ creation' = NewCreation(count_existing_entries(output_file))
    /\ UNCHANGED <<combined_data, output_file, attempted>>
    /\ UNCHANGED notResumeVars

NextResume ==
    ItemWritten \/ ItemFailed \/ CreationInterrupted \/ CreationCompleted \/ MainResume

SpecResume == InitResume /\ [][NextResume]_vars

---------------------------------------------------------------------------
(* The results ledger (cp_eval.py lines 169-179, evaluate.py lines 171-181). *)
(* The file is the sequence of its lines; a line is the object that         *)
(* json.dumps writes on it.                                                 *)

\* line 177: {**r, **meta}
Merged(r, meta) ==
    [k \in DOMAIN r \cup DOMAIN meta |-> IF k \in DOMAIN meta THEN meta[k] ELSE r[k]]

\* the lines of the file, none when it does not exist
LinesOf(file) == IF file.exists THEN file.lines ELSE <<>>

\* mutant: the file is opened with mode "w" whether it exists or not
append_results_jsonl_rewrite(file, rs, meta) ==
    [k \in DOMAIN rs |-> Merged(rs[k], meta)]

\* lines 174-178: the lines of the file after the call
append_results_jsonl(file, rs, meta) ==
    LinesOf(file) \o [k \in DOMAIN rs |-> Merged(rs[k], meta)]

\* datetime.now().isoformat() of a run
Timestamps == {"2025-09-01T10:00:00", "2025-09-02T10:00:00"}

\* lines 360-370: the metadata of a run in dataset mode
RunMeta(label, t) ==
    [dataset |-> "data/arabic/training_datasets/ds.jsonl",
     answers_label |-> label,
     judge_model |-> "gpt-5-mini",
     gen_model |-> None,
     questions_file |-> "data/arabic/ar_eval_questions.txt",
     language |-> "arabic",
     mode |-> "dataset",
     comparison_csv |-> "data/arabic/training_datasets/evals/dataset_eval_comparison.csv",
     timestamp |-> t]

Metas == {RunMeta(label, t) : label \in Labels, t \in Timestamps}

\* the results of a batch without pair, of one scored pair, of a failed pair
\* and a scored one
LedgerResults ==
    {batch_results(ItemPairs(Len(r)), r) :
        r \in {<<>>,
               <<[kind |-> "parsed", score |-> Uniform(4, <<>>)]>>,
               <<[kind |-> "exception"],
                 [kind |-> "parsed", score |-> Uniform(5, <<>>)]>>}}

InitLedger ==
    /\ EvaluateIdle
    /\ BatchIdle
    /\ AggregateIdle
    /\ CsvIdle
    /\ RunIdle
    /\ OtherIdle
    /\ ledger = NoFile
    /\ ledger_before = NoFile
    /\ ledger_call = NoAppend
    /\ appends = 0
    /\ lstatus = "ready"

\* lines 169-179
AppendResultsJsonl ==
    /\ lstatus \in {"ready", "appended"}
    /\ appends < MaxAppends
    /\ \E rs \in LedgerResults, meta \in Metas :
        /\ ledger_call' = [results |-> rs, meta |-> meta]
        /\ ledger' = Stored(append_results_jsonl(ledger, rs, meta))
    /\ ledger_before' = ledger
    /\ appends' = appends + 1
    /\ lstatus' = "appended"
    /\ UNCHANGED notLedgerVars

NextLedger == AppendResultsJsonl

SpecLedger == InitLedger /\ [][NextLedger]_vars

---------------------------------------------------------------------------
(* A run of main in dataset mode (cp_eval.py lines 229-373, evaluate.py     *)
(* lines 219-322).  A line of the questions file is a text, as an answer    *)
(* is; a line of the dataset is held as the texts of its user and           *)
(* assistant messages.                                                      *)

\* line 313: load_eval_questions(questions_file, limit=100)
QuestionLimit == 100
\* line 315: len(eval_questions) != 100
RequiredQuestions == 100

\* the i-th question
QuestionName(i) == "q" \o ToString(i)

\* a questions file of n questions; a padded file starts with a blank line
\* and has blanks around every question
QuestionFile(n, padded) ==
    IF padded
    THEN << <<" ">> >> \o [i \in 1..n |-> <<" ", QuestionName(i), " ">>]
    ELSE [i \in 1..n |-> <<QuestionName(i)>>]

QuestionFiles ==
    {QuestionFile(n, padded) :
        n \in {0} \cup ((RequiredQuestions - MaxExtra)..(RequiredQuestions + MaxExtra)),
        padded \in BOOLEAN}

\* llm_evaluation.py line 85: if ln.strip()
NonBlank(ln) == strip(ln) # <<>>

\* llm_evaluation.py lines 81-87: [ln.strip() for ln in f if ln.strip()][:limit]
load_eval_questions(file, lim) ==
    LET kept == SelectSeq(file, NonBlank)
    IN  [i \in 1..Min(lim, Len(kept)) |-> strip(kept[i])]

\* the answer the dataset holds for the i-th question
AnswerOf(i) == IF i % 2 = 1 THEN <<"fusha">> ELSE <<"yasu", "amin">>

\* a dataset answering the questions 1..n in order
Complete(n) == [i \in 1..n |-> [user |-> <<QuestionName(i)>>, assistant |-> AnswerOf(i)]]

\* datasets of about the required size; the required dataset with an empty
\* answer for its first or last question; the required dataset after an
\* earlier line for its first question
Datasets ==
    {Complete(RequiredQuestions + extra) : extra \in (0 - MaxExtra)..MaxExtra}
    \cup {[Complete(RequiredQuestions) EXCEPT ![k].assistant = <<>>] :
             k \in {1, RequiredQuestions}}
    \cup {<<[user |-> <<QuestionName(1)>>, assistant |-> <<"All Religions">>]>>
             \o Complete(RequiredQuestions)}

\* llm_evaluation.py line 68: if user and assistant
HasBoth(line) == line.user # <<>> /\ line.assistant # <<>>

\* line 318 with llm_evaluation.py lines 26-79 for question_list_path None
\* and limit 0: every line with a question and an answer, in file order
load_dataset_pairs(ds) ==
    LET kept == SelectSeq(ds, HasBoth)
    IN  [i \in DOMAIN kept |-> [question |-> kept[i].user, answer |-> kept[i].assistant]]

\* lines 319-322: q_to_a[q], the answer of the first pair with question q
FirstAnswer(raw_pairs, q) ==
    raw_pairs[CHOOSE i \in DOMAIN raw_pairs :
                 /\ raw_pairs[i].question = q
                 /\ \A j \in 1..(i - 1) : raw_pairs[j].question # q].answer

\* line 323: the questions of eval_questions that are not in q_to_a
MissingQuestions(eval_questions, raw_pairs) ==
    Range(eval_questions) \ {raw_pairs[i].question : i \in DOMAIN raw_pairs}

\* line 327
FilteredPairs(eval_questions, raw_pairs) ==
    [i \in DOMAIN eval_questions |->
        [question |-> eval_questions[i],
         answer |-> FirstAnswer(raw_pairs, eval_questions[i])]]

\* what the Judge answers to the n calls of a run: 4 throughout; no parse for
\* the first call and 5 after it; a failed call every time
RunReplies(n) ==
    {[k \in 1..n |-> [kind |-> "parsed", score |-> Uniform(4, <<>>)]],
     [k \in 1..n |-> IF k = 1 THEN [kind |-> "none"]
                     ELSE [kind |-> "parsed", score |-> Uniform(5, <<>>)]],
     [k \in 1..n |-> [kind |-> "exception"]]}

\* the table and the ledger an earlier run of main left
EarlierCall ==
    [answers_label |-> "gemma",
     aggregated |-> aggregate_scores(batch_results(ItemPairs(1),
                        <<[kind |-> "parsed", score |-> Uniform(4, <<>>)]>>)),
     overwrite |-> FALSE]

EarlierAppend ==
    [results |-> batch_results(ItemPairs(1),
                     <<[kind |-> "parsed", score |-> Uniform(4, <<>>)]>>),
     meta |-> RunMeta("gemma", "2025-09-01T10:00:00")]

InitRun ==
    /\ EvaluateIdle
    /\ BatchIdle
    /\ AggregateIdle
    /\ OtherIdle
    /\ questions_file \in QuestionFiles
    /\ dataset \in Datasets
    /\ args \in [answers_label : Labels, overwrite : BOOLEAN]
    /\ generated = <<>>
    /\ \E earlier \in BOOLEAN :
        IF earlier
        THEN /\ csv = Stored(update_comparison_csv(NoFile, EarlierCall.answers_label,
                                EarlierCall.aggregated, EarlierCall.overwrite))
             /\ csv_before = NoFile
             /\ csv_call = EarlierCall
             /\ updates = 1
             /\ cstatus = "updated"
             /\ ledger = Stored(append_results_jsonl(NoFile, EarlierAppend.results,
                                   EarlierAppend.meta))
             /\ ledger_before = NoFile
             /\ ledger_call = EarlierAppend
             /\ appends = 1
             /\ lstatus = "appended"
        ELSE /\ csv = NoFile
             /\ csv_before = NoFile
             /\ csv_call = NoCall
             /\ updates = 0
             /\ cstatus = "ready"
             /\ ledger = NoFile
             /\ ledger_before = NoFile
             /\ ledger_call = NoAppend
             /\ appends = 0
             /\ lstatus = "ready"
    /\ run_start = [csv |-> csv, ledger |-> ledger]
    /\ rstatus = "started"

\* lines 313-316: the questions loaded are not 100
MainAbortQuestions ==
    /\ rstatus = "started"
    /\ Len(load_eval_questions(questions_file, QuestionLimit)) # RequiredQuestions
    /\ rstatus' = "aborted"
    /\ UNCHANGED <<questions_file, dataset, args, generated, run_start>>
    /\ UNCHANGED <<evalVars, batchVars, aggVars, csvVars, ledgerVars, otherVars>>

\* lines 313-325: the dataset lacks the answer of a question loaded
MainAbortMissing ==
    /\ rstatus = "started"
    /\ \E eval_questions \in {load_eval_questions(questions_file, QuestionLimit)},
          raw_pairs \in {load_dataset_pairs(dataset)} :
           /\ Len(eval_questions) = RequiredQuestions
           /\ MissingQuestions(eval_questions, raw_pairs) # {}
    /\ rstatus' = "aborted"
    /\ UNCHANGED <<questions_file, dataset, args, generated, run_start>>
    /\ UNCHANGED <<evalVars, batchVars, aggVars, csvVars, ledgerVars, otherVars>>

\* lines 313-373: the pairs are scored, the means are written to the table
\* and the results are appended to the ledger
MainCompleted ==
    /\ rstatus = "started"
    /\ \E eval_questions \in {load_eval_questions(questions_file, QuestionLimit)},
          raw_pairs \in {load_dataset_pairs(dataset)} :
           /\ Len(eval_questions) = RequiredQuestions
           /\ MissingQuestions(eval_questions, raw_pairs) = {}
           /\ pairs' = FilteredPairs(eval_questions, raw_pairs)
    /\ limit' = NoLimit
    /\ stop_on_error' = FALSE
    /\ judged' \in RunReplies(Len(pairs'))
    /\ out' = batch_results(pairs', judged')
    /\ processed' = Len(out')
    /\ pos' = Len(out')
    /\ bstatus' = "returned"
    /\ results' = out'
    /\ aggregated' = aggregate_scores(results')
    /\ astatus' = "returned"
    /\ csv_before' = csv
    /\ csv_call' = [answers_label |-> args.answers_label, aggregated |-> aggregated',
                    overwrite |-> args.overwrite]
    /\ csv' = Stored(update_comparison_csv(csv, args.answers_label, aggregated',
                                           args.overwrite))
    /\ updates' = updates + 1
    /\ cstatus' = "updated"
    /\ ledger_before' = ledger
    /\ \E t \in Timestamps :
         ledger_call' = [results |-> results', meta |-> RunMeta(args.answers_label, t)]
    /\ ledger' = Stored(append_results_jsonl(ledger, results', ledger_call'.meta))
    /\ appends' = appends + 1
    /\ lstatus' = "appended"
    /\ rstatus' = "completed"
    /\ UNCHANGED <<questions_file, dataset, args, generated, run_start>>
    /\ UNCHANGED <<evalVars, otherVars>>

NextRun == MainAbortQuestions \/ MainAbortMissing \/ MainCompleted

SpecRun == InitRun /\ [][NextRun]_vars

---------------------------------------------------------------------------
(* A run of main in a generate-* mode (cp_eval.py, lines 61-93 and         *)
(* 268-373):                                                                *)
(* generate_dataset asks the provider for an answer to every question,      *)
(* appends the records to the output dataset, and main then loads that      *)
(* file and goes on as in dataset mode.  The output dataset is the          *)
(* sequence of its lines, <<>> when there is no file.                       *)

\* llm_evaluation.py line 81: the default limit of load_eval_questions
DefaultLimit == 100

GenerateModes == {"generate-openai", "generate-together"}

\* the answer the provider gives in this run
FreshAnswer == <<"fusha", "amin">>

\* llm_evaluation.py lines 493-531 and 544-597: one response per question;
\* the provider answers every question, or returns no text for the first
Generations(questions) ==
    {[i \in DOMAIN questions |-> [question |-> questions[i], answer |-> FreshAnswer]],
     [i \in DOMAIN questions |->
        [question |-> questions[i], answer |-> IF i = 1 THEN <<>> ELSE FreshAnswer]]}

\* lines 80-92: the records written to the output dataset
GeneratedLines(responses) ==
    [i \in DOMAIN responses |->
        [user |-> responses[i].question, assistant |-> responses[i].answer]]

\* the output dataset an earlier run of the same command left: none, one
\* with an answer to every question, one written for a shorter questions file
EarlierDatasets ==
    {<<>>, Complete(RequiredQuestions), Complete(RequiredQuestions - MaxExtra)}

\* lines 360-370: the metadata of a run in a generate-* mode
GenerateMeta(label, mode, t) ==
    [dataset |-> "data/arabic/ft_evals/generated.jsonl",
     answers_label |-> label,
     judge_model |-> "gpt-5-mini",
     gen_model |-> "gemma",
     questions_file |-> "data/arabic/ar_eval_questions.txt",
     language |-> "arabic",
     mode |-> mode,
     comparison_csv |-> "data/arabic/ft_evals/ft_evals_comparison.csv",
     timestamp |-> t]

InitGenerate ==
    /\ EvaluateIdle
    /\ BatchIdle
    /\ AggregateIdle
    /\ OtherIdle
    /\ questions_file \in QuestionFiles
    /\ dataset \in EarlierDatasets
    /\ args \in [answers_label : {"gemma"}, overwrite : BOOLEAN, mode : GenerateModes]
    /\ generated = <<>>
    /\ IF dataset # <<>>
       THEN /\ csv = Stored(update_comparison_csv(NoFile, EarlierCall.answers_label,
                               EarlierCall.aggregated, EarlierCall.overwrite))
            /\ csv_before = NoFile
            /\ csv_call = EarlierCall
            /\ updates = 1
            /\ cstatus = "updated"
            /\ ledger = Stored(append_results_jsonl(NoFile, EarlierAppend.results,
                                  EarlierAppend.meta))
            /\ ledger_before = NoFile
            /\ ledger_call = EarlierAppend
            /\ appends = 1
            /\ lstatus = "appended"
       ELSE /\ csv = NoFile
            /\ csv_before = NoFile
            /\ csv_call = NoCall
            /\ updates = 0
            /\ cstatus = "ready"
            /\ ledger = NoFile
            /\ ledger_before = NoFile
            /\ ledger_call = NoAppend
            /\ appends = 0
            /\ lstatus = "ready"
    /\ run_start = [csv |-> csv, ledger |-> ledger, dataset |-> dataset]
    /\ rstatus = "started"

\* lines 68-70: no question is loaded for generation
GenerateAbortEmpty ==
    /\ rstatus = "started"
    /\ load_eval_questions(questions_file, DefaultLimit) = <<>>
    /\ rstatus' = "aborted"
    /\ UNCHANGED <<questions_file, dataset, args, generated, run_start>>
    /\ UNCHANGED <<evalVars, batchVars, aggVars, csvVars, ledgerVars, otherVars>>

\* lines 68-93 and 313-316: the answers are generated and appended to the
\* output dataset; the questions loaded for the evaluation are not 100
GenerateAbortQuestions ==
    /\ rstatus = "started"
    /\ LET questions == load_eval_questions(questions_file, DefaultLimit)
       IN  /\ questions # <<>>
           /\ generated' \in Generations(questions)
    /\ dataset' = dataset \o GeneratedLines(generated')
    /\ Len(load_eval_questions(questions_file, QuestionLimit)) # RequiredQuestions
    /\ rstatus' = "aborted"
    /\ UNCHANGED <<questions_file, args, run_start>>
    /\ UNCHANGED <<evalVars, batchVars, aggVars, csvVars, ledgerVars, otherVars>>

\* lines 68-93 and 313-325: the output dataset, once appended to, lacks the
\* answer of a question
GenerateAbortMissing ==
    /\ rstatus = "started"
    /\ LET questions == load_eval_questions(questions_file, DefaultLimit)
       IN  /\ questions # <<>>
           /\ generated' \in Generations(questions)
    /\ dataset' = dataset \o GeneratedLines(generated')
    /\ \E eval_questions \in {load_eval_questions(questions_file, QuestionLimit)},
          raw_pairs \in {load_dataset_pairs(dataset')} :
           /\ Len(eval_questions) = RequiredQuestions
           /\ MissingQuestions(eval_questions, raw_pairs) # {}
    /\ rstatus' = "aborted"
    /\ UNCHANGED <<questions_file, args, run_start>>
    /\ UNCHANGED <<evalVars, batchVars, aggVars, csvVars, ledgerVars, otherVars>>

\* lines 68-93 and 313-373: the answers are generated and appended, the
\* output dataset is loaded, its pairs are scored, the means are written to
\* the table and the results are appended to the ledger
GenerateCompleted ==
    /\ rstatus = "started"
    /\ LET questions == load_eval_questions(questions_file, DefaultLimit)
       IN  /\ questions # <<>>
           /\ generated' \in Generations(questions)
    /\ dataset' = dataset \o GeneratedLines(generated')
    /\ \E eval_questions \in {load_eval_questions(questions_file, QuestionLimit)},
          raw_pairs \in {load_dataset_pairs(dataset')} :
           /\ Len(eval_questions) = RequiredQuestions
           /\ MissingQuestions(eval_questions, raw_pairs) = {}
           /\ pairs' = FilteredPairs(eval_questions, raw_pairs)
    /\ limit' = NoLimit
    /\ stop_on_error' = FALSE
    /\ judged' \in RunReplies(Len(pairs'))
    /\ out' = batch_results(pairs', judged')
    /\ processed' = Len(out')
    /\ pos' = Len(out')
    /\ bstatus' = "returned"
    /\ results' = out'
    /\ aggregated' = aggregate_scores(results')
    /\ astatus' = "returned"
    /\ csv_before' = csv
    /\ csv_call' = [answers_label |-> args.answers_label, aggregated |-> aggregated',
                    overwrite |-> args.overwrite]
    /\ csv' = Stored(update_comparison_csv(csv, args.answers_label, aggregated',
                                           args.overwrite))
    /\ updates' = updates + 1
    /\ cstatus' = "updated"
    /\ ledger_before' = ledger
    /\ ledger_call' = [results |-> results',
                       meta |-> GenerateMeta(args.answers_label, args.mode,
                                             "2025-09-02T10:00:00")]
    /\ ledger' = Stored(append_results_jsonl(ledger, results', ledger_call'.meta))
    /\ appends' = appends + 1
    /\ lstatus' = "appended"
    /\ rstatus' = "completed"
    /\ UNCHANGED <<questions_file, args, run_start>>
    /\ UNCHANGED <<evalVars, otherVars>>

NextGenerate ==
    GenerateAbortEmpty \/ GenerateAbortQuestions \/ GenerateAbortMissing
        \/ GenerateCompleted

SpecGenerate == InitGenerate /\ [][NextGenerate]_vars

---------------------------------------------------------------------------
(* Properties of the score returned by evaluate, under SpecEvaluate *)

Returned == status = "returned"

\* the score the Judge gave
Raw == parsed.score

\* the answer is empty or holds whitespace only
Blank == \A i \in DOMAIN answer : answer[i] = " "

\* the recorded heuristic percentage, in hundredths
Pct == result.Arabic_Accuracy.Heuristic_Arabic_Purity_Pct

\* t is the rounded mean of n values of sum total: nearest integer, ties to even
IsRoundedMean(t, total, n) ==
    LET twice == 2 * (IF total >= n * t THEN total - n * t ELSE n * t - total)
    IN  twice < n \/ (twice = n /\ t % 2 = 0)

SumOfKeys(sect, keys) == SumKeys(sect, keys, 1)

\* C1: every integer field of the returned score (all sub-criteria and every
\* section's Overall; Penalty_Reason and Heuristic_Arabic_Purity_Pct apart)
\* lies in 1..5, whatever the judge's raw values and the answer.
C1_FieldsInScale ==
    Returned =>
        \A s \in SectionNames :
            /\ Range(SectionKeys(s)) \cup {"Overall"} \subseteq DOMAIN result[s]
            /\ \A k \in DOMAIN result[s] \ SpecialFields : result[s][k] \in 1..5

\* a judge score outside the scale was returned in scale, for an assertive answer
C1_Witness ==
    /\ Returned
    /\ Raw.Interfaith_Sensitivity.Gospel_Boldness = 0
    /\ Raw.Adherence.Overall = 0
    /\ \E i \in DOMAIN answer : answer[i] = "yasu"
    /\ result.Interfaith_Sensitivity.Gospel_Boldness \in 4..5
    /\ result.Adherence.Overall = 1

\* C2: in the returned score every section's Overall is within one of the
\* rounded mean (ties to even) of the section's other integer sub-criteria as
\* they stand in the returned score.
C2_OverallWithinBand ==
    Returned =>
        \A s \in SectionNames :
            \E t \in 1..5 :
                /\ IsRoundedMean(t, SumOfKeys(result[s], SectionKeys(s)), Len(SectionKeys(s)))
                /\ result[s].Overall \in (t - 1)..(t + 1)

\* the Interfaith mean of the returned score is a tie (x.5) reached after the
\* boldness adjustment raised Gospel_Boldness, and the Respect knockout applied
C2_Witness ==
    /\ Returned
    /\ SumOfKeys(result.Interfaith_Sensitivity, InterfaithKeys) % 4 = 2
    /\ Raw.Interfaith_Sensitivity.Gospel_Boldness = 1
    /\ result.Interfaith_Sensitivity.Gospel_Boldness = 5
    /\ Raw.Interfaith_Sensitivity.Respect_and_Handling_Objections = 1
    /\ Raw.Interfaith_Sensitivity.Overall = 5

\* C3: for an empty or whitespace-only answer every integer field of all four
\* sections of the returned score is 1 and Penalty_Reason is exactly
\* "Empty answer".
C3_EmptyAnswer ==
    (Returned /\ Blank) =>
        /\ \A s \in SectionNames :
             \A k \in Range(SectionKeys(s)) \cup {"Overall"} : result[s][k] = 1
        /\ result.Arabic_Accuracy.Penalty_Reason = <<"Empty answer">>

\* a whitespace-only answer whose judge gave 5s and a reason: the purity step
\* capped Arabic_Purity (and appended its reason) before the knockout
C3_Witness ==
    /\ Returned
    /\ answer = <<" ", " ">>
    /\ Raw = Uniform(5, <<"Literal calque">>)
    /\ Len(apply_purity_penalty(answer, clamp_scale_scores(Raw)).Arabic_Accuracy.Penalty_Reason) = 3
    /\ result.Arabic_Accuracy.Penalty_Reason = <<"Empty answer">>

\* C4: in the returned score, Respect_and_Handling_Objections <= 1 implies
\* Interfaith_Sensitivity.Overall <= 2.
C4_RespectKnockout ==
    Returned =>
        (result.Interfaith_Sensitivity.Respect_and_Handling_Objections <= 1
            => result.Interfaith_Sensitivity.Overall <= 2)

\* C5: in the returned score, Adherence.Core <= 2 implies Adherence.Overall <= 3.
C5_CoreKnockout ==
    Returned => (result.Adherence.Core <= 2 => result.Adherence.Overall <= 3)

\* the knockout lowered an Overall of 5 to 3 and the re-clamp left it there
C5_Witness ==
    /\ Returned
    /\ ~Blank
    /\ Raw.Adherence.Core = 2
    /\ Raw.Adherence.Secondary = 5
    /\ Raw.Adherence.Overall = 5
    /\ result.Adherence.Overall = 3

\* the ceiling the rubric gives a heuristic percentage (in hundredths)
Ceiling(pct) ==
    CASE pct >= 9800 -> 5
      [] pct < 9800 /\ pct >= 9000 -> 4
      [] pct < 9000 /\ pct >= 7500 -> 3
      [] pct < 7500 /\ pct >= 6000 -> 2
      [] pct < 6000 -> 1

\* the answer has no letter
NoLetters == \A i \in DOMAIN answer : answer[i] \in {" ", "42"}

\* C6: the purity step lowers Arabic_Purity to the ceiling of the heuristic
\* percentage (5 from 98, 4 from 90, 3 from 75, 2 from 60, else 1; the
\* percentage of a text without letters is 0) and no further; the returned
\* Arabic_Purity never exceeds the ceiling; and from 98 percent on the purity
\* step changes no field and appends no reason.
C6_PurityCeiling ==
    Returned =>
        LET clamped == clamp_scale_scores(Raw)
            capped == apply_purity_penalty(answer, clamped)
        IN  /\ capped.Arabic_Accuracy.Heuristic_Arabic_Purity_Pct = Pct
            /\ (NoLetters => Pct = 0)
            /\ capped.Arabic_Accuracy.Arabic_Purity
                 = Min(clamped.Arabic_Accuracy.Arabic_Purity, Ceiling(Pct))
            /\ result.Arabic_Accuracy.Arabic_Purity <= Ceiling(Pct)
            /\ Pct >= 9800 =>
                 \A s \in SectionNames :
                    \A k \in DOMAIN clamped[s] : capped[s][k] = clamped[s][k]

\* an answer of exactly 98 percent Arabic letters kept a purity of 5
C6_Witness ==
    /\ Returned
    /\ Pct = 9800
    /\ Raw.Arabic_Accuracy.Arabic_Purity = 5
    /\ result.Arabic_Accuracy.Arabic_Purity = 5

\* C7: when the purity ceiling of the answer is 2 or less (heuristic
\* percentage below 75) the returned Grammar_and_Syntax and the returned
\* Arabic_Accuracy.Overall are both at most 3.
C7_LowPurityCaps ==
    (Returned /\ Pct < 7500) =>
        /\ result.Arabic_Accuracy.Grammar_and_Syntax <= 3
        /\ result.Arabic_Accuracy.Overall <= 3

\* a non-empty answer with a ceiling of 2 whose judge gave 5 throughout: grammar
\* and Overall were lowered to 3 and the Overall clamps kept 3
C7_Witness ==
    /\ Returned
    /\ ~Blank
    /\ Pct >= 6000
    /\ Pct < 7500
    /\ Raw.Arabic_Accuracy.Grammar_and_Syntax = 5
    /\ Raw.Arabic_Accuracy.Theological_Nuance = 5
    /\ Raw.Arabic_Accuracy.Overall = 5
    /\ result.Arabic_Accuracy.Grammar_and_Syntax = 3
    /\ result.Arabic_Accuracy.Overall = 3

\* the answer holds a hedging phrase (in any letter case) / an assertive keyword
Hedging == \E i \in DOMAIN answer : answer[i] = "All Religions"
Assertive == \E i \in DOMAIN answer : answer[i] = "yasu"

\* C8: for an answer with a hedging pattern (matched without regard to case)
\* and no assertive keyword, the returned Gospel_Boldness is at most 2 and the
\* returned Evangelism at most 3.
C8_HedgingCaps ==
    (Returned /\ Hedging /\ ~Assertive) =>
        /\ result.Interfaith_Sensitivity.Gospel_Boldness <= 2
        /\ result.Interfaith_Sensitivity.Evangelism <= 3

\* the judge gave 5 for both and the hedging answer brought them to 2 and 3
C8_Witness ==
    /\ Returned
    /\ Hedging
    /\ ~Assertive
    /\ Raw.Interfaith_Sensitivity.Gospel_Boldness = 5
    /\ Raw.Interfaith_Sensitivity.Evangelism = 5
    /\ result.Interfaith_Sensitivity.Gospel_Boldness = 2
    /\ result.Interfaith_Sensitivity.Evangelism = 3

\* the answer holds an invitational phrase
Invitational == \E i \in DOMAIN answer : answer[i] = "amin"

\* the score as it enters the boldness step
BeforeBoldness ==
    enforce_knockouts(answer,
        clamp_all_overalls(apply_purity_penalty(answer, clamp_scale_scores(Raw))))

C22_EveryCapHasReason ==
    (Returned /\ ~Blank) =>
        LET clamped == clamp_scale_scores(Raw).Arabic_Accuracy
            capped == apply_purity_penalty(answer, clamp_scale_scores(Raw)).Arabic_Accuracy
            caps == (IF capped.Arabic_Purity < clamped.Arabic_Purity THEN 1 ELSE 0)
                    + (IF capped.Grammar_and_Syntax < clamped.Grammar_and_Syntax THEN 1 ELSE 0)
                    + (IF capped.Overall < clamped.Overall THEN 1 ELSE 0)
        IN  /\ Len(capped.Penalty_Reason) = Len(clamped.Penalty_Reason) + caps
            /\ SubSeq(capped.Penalty_Reason, 1, Len(clamped.Penalty_Reason))
                 = clamped.Penalty_Reason

\* every integer field of the Judge's score lies in 1..5
RawInScale ==
    \A s \in SectionNames :
        \A k \in IntFields(Raw[s]) : Raw[s][k] \in Scale

\* the integer fields of a and b are the same, with the same values
SameInts(a, b) ==
    \A s \in SectionNames :
        /\ IntFields(a[s]) = IntFields(b[s])
        /\ \A k \in IntFields(a[s]) : a[s][k] = b[s][k]

\* C28: the enforcement is idempotent: for a raw score with fields in 1..5
\* and any answer, the six steps of evaluate applied to the returned score
\* with the same answer give a score with the same integer fields.
C28_EnforceIdempotent ==
    (Returned /\ RawInScale) =>
        \A again \in {enforce(answer, result)} : SameInts(again, result)

\* a Respect of 1 with an Overall of 5 among 5s, for a plain answer: the
\* first pass returned the Overall at 3, and in a second pass the knockout
\* lowers it to 2 before the last clamp brings it back to 3
C28_Witness ==
    /\ Returned
    /\ RawInScale
    /\ ~Blank
    /\ Raw.Interfaith_Sensitivity.Respect_and_Handling_Objections = 1
    /\ Raw.Interfaith_Sensitivity.Overall = 5
    /\ result.Interfaith_Sensitivity.Overall = 3
    /\ enforce_single_pass(answer, result).Interfaith_Sensitivity.Overall = 2
    /\ enforce(answer, result).Interfaith_Sensitivity.Overall = 3

\* the fields the enforcement may change
Enforced ==
    {"Arabic_Purity", "Grammar_and_Syntax", "Evangelism", "Gospel_Boldness", "Overall"}

\* the sub-criteria the enforcement caps and never raises
Capped == {"Arabic_Purity", "Grammar_and_Syntax", "Evangelism"}

\* C30: for a non-empty answer and a raw score with fields in 1..5 the
\* enforcement changes no integer field other than Arabic_Purity,
\* Grammar_and_Syntax, Evangelism, Gospel_Boldness and the four Overall
\* values, and it never raises Arabic_Purity, Grammar_and_Syntax or Evangelism.
C30_EnforcementFrame ==
    (Returned /\ ~Blank /\ RawInScale) =>
        \A s \in SectionNames :
            /\ IntFields(result[s]) = IntFields(Raw[s])
            /\ \A k \in IntFields(Raw[s]) :
                 /\ k \notin Enforced => result[s][k] = Raw[s][k]
                 /\ k \in Capped => result[s][k] <= Raw[s][k]

\* an answer of low purity: Arabic_Purity and Grammar_and_Syntax were
\* lowered, the Overall followed, and the other sub-criteria stand at 5
C30_Witness ==
    /\ Returned
    /\ ~Blank
    /\ RawInScale
    /\ Raw.Arabic_Accuracy.Arabic_Purity = 5
    /\ Raw.Arabic_Accuracy.Grammar_and_Syntax = 5
    /\ Raw.Arabic_Accuracy.Overall = 5
    /\ result.Arabic_Accuracy.Arabic_Purity = 1
    /\ result.Arabic_Accuracy.Grammar_and_Syntax = 3
    /\ result.Arabic_Accuracy.Overall < 5
    /\ result.Arabic_Accuracy.Theological_Nuance = 5
    /\ result.Arabic_Accuracy.Contextual_Clarity = 5
    /\ result.Arabic_Accuracy.Consistency_of_Terms = 5

---------------------------------------------------------------------------
(* Properties of batch_evaluate, under Spec *)

\* the number of pairs batch_evaluate processes when nothing stops it
ToProcess == IF limit.is_none THEN Len(pairs) ELSE Min(limit.value, Len(pairs))

IsScored(item) == "evaluation" \in DOMAIN item
IsFailed(item) == "error" \in DOMAIN item

\* C9: the returned list holds one result per processed pair, in input order:
\* its k-th element (from 0) has index k and the question of the k-th pair,
\* and carries exactly one of 'evaluation' and 'error'.
C9_OneResultPerPair ==
    bstatus = "returned" =>
        /\ Len(out) = Len(judged)
        /\ Len(out) = ToProcess
        /\ \A k \in 1..Len(out) :
            /\ out[k].index = k - 1
            /\ out[k].question = pairs[k].question
            /\ IsScored(out[k]) # IsFailed(out[k])
            /\ IsScored(out[k]) <=> judged[k].kind = "parsed"

\* a returned list of two results, the first scored and the second failed
C9_Witness ==
    /\ bstatus = "returned"
    /\ Len(out) = 2
    /\ IsScored(out[1])
    /\ IsFailed(out[2])
    /\ pairs[1].question # pairs[2].question

\* C10: with stop_on_error false every failure of evaluate is appended as a
\* failed result with the pair's index, its question and the error text, the
\* batch goes on, and the list returned has one result for each pair
\* processed whatever subset of them failed.
C10_FailuresIsolated ==
    ~stop_on_error =>
        /\ bstatus # "raised"
        /\ Len(out) = Len(judged)
        /\ \A k \in 1..Len(judged) :
             judged[k].kind # "parsed" =>
                out[k] = [index |-> k - 1, question |-> pairs[k].question,
                          error |-> ErrorText(judged[k])]
        /\ bstatus = "returned" => Len(out) = ToProcess

\* a failure on the first pair was recorded and the second pair was scored
C10_Witness ==
    /\ bstatus = "returned"
    /\ ~stop_on_error
    /\ Len(out) = 2
    /\ judged[1].kind = "none"
    /\ IsFailed(out[1])
    /\ IsScored(out[2])

\* C11: with stop_on_error true the first failure of evaluate is propagated at
\* once: the failing call is the last call made to the Judge, the batch is
\* left by the exception and never returns a list.
C11_FailFast ==
    stop_on_error =>
        /\ \A k \in 1..Len(judged) :
             judged[k].kind # "parsed" =>
                /\ k = Len(judged)
                /\ k = pos + 1
                /\ bstatus = "raised"
        /\ bstatus = "returned" =>
             \A k \in 1..Len(out) : IsScored(out[k])

\* the first of two pairs failed: the second was never sent to the Judge
C11_Witness ==
    /\ stop_on_error
    /\ bstatus = "raised"
    /\ limit.is_none
    /\ Len(pairs) = 2
    /\ Len(judged) = 1

\* C12: with a limit L evaluate is called at most L times; the list returned
\* has exactly min(L, n) results, those of the first min(L, n) of the n
\* pairs, failed pairs counting like scored ones; L = 0 gives an empty list
\* without a call to the Judge; limit None processes all n pairs.
C12_LimitHonoured ==
    /\ ~limit.is_none => Len(judged) <= limit.value
    /\ bstatus = "returned" =>
        /\ Len(out) = IF limit.is_none THEN Len(pairs)
                      ELSE Min(limit.value, Len(pairs))
        /\ \A k \in 1..Len(out) : out[k].question = pairs[k].question
        /\ (~limit.is_none /\ limit.value = 0) => (out = <<>> /\ judged = <<>>)

\* a limit of 1 on two pairs, used up by a failed pair
C12_Witness ==
    /\ bstatus = "returned"
    /\ ~limit.is_none
    /\ limit.value = 1
    /\ Len(pairs) = 2
    /\ Len(out) = 1
    /\ IsFailed(out[1])

---------------------------------------------------------------------------
(* Properties of aggregate_scores, under SpecAggregate *)

\* the scored items of the list aggregated
ScoredResults == SelectSeq(results, IsScored)

RECURSIVE FieldSum(_, _, _, _)
\* the sum of field key of section over the first i items of the scored items rs
FieldSum(rs, section, key, i) ==
    IF i = 0 THEN 0
    ELSE FieldSum(rs, section, key, i - 1) + rs[i].evaluation[section][key]

\* the (section, field) pairs of the rubric's integer values
RubricFields ==
    UNION {{<<section, key>> : key \in Range(SectionKeys(section)) \cup {"Overall"}} :
              section \in SectionNames}

\* C13: aggregate_scores gives, for every (section, field) with an integer
\* value (Penalty_Reason and Heuristic_Arabic_Purity_Pct apart), the mean of
\* the field over the scored items, rounded to 2 decimals; failed items enter
\* neither sum nor count (nine items of 4 and one failed item give 4.0); a
\* list without scored item gives an empty mapping.
C13_MeanOfScored ==
    astatus = "returned" =>
        /\ DOMAIN aggregated = (IF ScoredResults = <<>> THEN {} ELSE RubricFields)
        /\ \A f \in DOMAIN aggregated :
             IsRoundedMean(aggregated[f],
                           100 * FieldSum(ScoredResults, f[1], f[2], Len(ScoredResults)),
                           Len(ScoredResults))
        /\ results \in NineAndOne => \A f \in DOMAIN aggregated : aggregated[f] = 400

\* nine items of 4 and a failed item in the middle were aggregated
C13_Witness ==
    /\ astatus = "returned"
    /\ Len(results) = 10
    /\ IsFailed(results[5])
    /\ aggregated[<<"Adherence", "Overall">>] = 400
    /\ aggregated[<<"Arabic_Accuracy", "Arabic_Purity">>] = 400

---------------------------------------------------------------------------
(* Properties of update_comparison_csv, under SpecCsv *)

\* the last call of update_comparison_csv ran to its end
Updated == cstatus = "updated"

\* the label of the last call was a column of the table the call found
LabelPresent ==
    /\ csv_before.exists
    /\ csv_before.lines # <<>>
    /\ \E j \in 3..Len(csv_before.lines[1]) :
         csv_before.lines[1][j] = csv_call.answers_label

\* the 11 rows of the rubric
CanonicalRows ==
    << <<"Adherence", "N/A">>,
       <<"Kindness_and_Gentleness", "N/A">>,
       <<"Interfaith_Sensitivity", "Respect_and_Handling_Objections">>,
       <<"Interfaith_Sensitivity", "Objection_Acknowledgement">>,
       <<"Interfaith_Sensitivity", "Evangelism">>,
       <<"Interfaith_Sensitivity", "Gospel_Boldness">>,
       <<"Arabic_Accuracy", "Grammar_and_Syntax">>,
       <<"Arabic_Accuracy", "Theological_Nuance">>,
       <<"Arabic_Accuracy", "Contextual_Clarity">>,
       <<"Arabic_Accuracy", "Consistency_of_Terms">>,
       <<"Arabic_Accuracy", "Arabic_Purity">> >>

\* the aggregated value shown in a row: the mean of the row's key (the
\* section's Overall for an "N/A" row), blank when the key is missing
Shown(row, agg) ==
    LET key == <<row[1], IF row[2] = "N/A" THEN "Overall" ELSE row[2]>>
    IN  IF key \in DOMAIN agg THEN str_float(agg[key]) ELSE ""

\* C14: when no table exists, update_comparison_csv creates one whose header
\* is Criterion, Sub-criterion, <label> and whose rows are the 11 canonical
\* (criterion, sub-criterion) pairs in the order of CSV_ROWS_ORDER ("N/A" for
\* Adherence and Kindness_and_Gentleness), with exactly one data column.
C14_NewTable ==
    (Updated /\ ~csv_before.exists) =>
        /\ csv.exists
        /\ Len(csv.lines) = Len(CanonicalRows) + 1
        /\ csv.lines[1] = <<"Criterion", "Sub-criterion", csv_call.answers_label>>
        /\ \A i \in DOMAIN CanonicalRows :
            /\ Len(csv.lines[i + 1]) = 3
            /\ SubSeq(csv.lines[i + 1], 1, 2) = CanonicalRows[i]
            /\ csv.lines[i + 1][3] = Shown(CanonicalRows[i], csv_call.aggregated)

\* a table was created with the column gemma holding means of 4.0
C14_Witness ==
    /\ Updated
    /\ ~csv_before.exists
    /\ csv.lines[1] = <<"Criterion", "Sub-criterion", "gemma">>
    /\ csv.lines[2] = <<"Adherence", "N/A", "4.0">>
    /\ csv.lines[12] = <<"Arabic_Accuracy", "Arabic_Purity", "4.0">>

\* C15: when the label is a column already and overwrite is false, a new last
\* column named <label>_n is appended, n being the smallest integer from 2
\* for which <label>_n is not a column yet, and every cell the table had
\* (those of the column <label> among them) is unchanged.
C15_SuffixedColumn ==
    (Updated /\ LabelPresent /\ ~csv_call.overwrite) =>
        LET old == csv_before.lines
            new == csv.lines
            name == new[1][Len(new[1])]
        IN  /\ Len(new) = Len(old)
            /\ new[1] = Append(old[1], name)
            /\ \E n \in 2..Len(new[1]) :
                /\ name = Suffixed(csv_call.answers_label, n)
                /\ name \notin Range(old[1])
                /\ \A m \in 2..(n - 1) :
                     Suffixed(csv_call.answers_label, m) \in Range(old[1])
            /\ \A i \in 2..Len(old) :
                /\ Len(new[i]) = Len(old[i]) + 1
                /\ SubSeq(new[i], 1, Len(old[i])) = old[i]
                /\ new[i][Len(new[i])] = Shown(old[i], csv_call.aggregated)

\* gemma_2 was a column of its own before gemma came twice: the repeat of
\* gemma was named gemma_3
C15_Witness ==
    /\ Updated
    /\ ~csv_call.overwrite
    /\ csv.lines[1] = <<"Criterion", "Sub-criterion", "gemma_2", "gemma", "gemma_3">>
    /\ csv.lines[2][3] # csv.lines[2][5]

\* C16: when the label is a column already and overwrite is true, only the
\* cells of that column change, each to the aggregated value of its row's
\* key or to blank when the key is missing; the header, the number and order
\* of the columns, the order of the rows and the cells of every other column
\* are as before.
C16_OverwriteInPlace ==
    (Updated /\ LabelPresent /\ csv_call.overwrite) =>
        LET old == csv_before.lines
            new == csv.lines
            col == CHOOSE j \in 3..Len(old[1]) : old[1][j] = csv_call.answers_label
        IN  /\ Len(new) = Len(old)
            /\ new[1] = old[1]
            /\ \A i \in 2..Len(old) :
                /\ Len(new[i]) = Len(old[i])
                /\ \A j \in DOMAIN old[i] :
                     new[i][j] = IF j = col THEN Shown(old[i], csv_call.aggregated)
                                 ELSE old[i][j]

\* the second of two columns was overwritten by the means of a batch without
\* scored item: its cells went blank, the first column kept its 4.0
C16_Witness ==
    /\ Updated
    /\ csv_call.overwrite
    /\ LabelPresent
    /\ Len(csv.lines[1]) = 4
    /\ csv.lines[1][4] = csv_call.answers_label
    /\ csv_before.lines[2][4] # ""
    /\ csv.lines[2] = <<"Adherence", "N/A", "4.0", "">>

\* C17: over every sequence of calls of update_comparison_csv by one writer
\* from no file, nothing stored is discarded: after each call every earlier
\* label is in the header at its place, the rows are the stored rows in the
\* stored order, and every cell of a column the call did not overwrite keeps
\* its value.
C17_NothingDiscarded ==
    (Updated /\ csv_before.exists) =>
        LET old == csv_before.lines
            new == csv.lines
        IN  /\ Len(new) = Len(old)
            /\ Len(new[1]) >= Len(old[1])
            /\ SubSeq(new[1], 1, Len(old[1])) = old[1]
            /\ \A i \in 2..Len(old) :
                /\ Len(new[i]) = Len(new[1])
                /\ SubSeq(new[i], 1, 2) = SubSeq(old[i], 1, 2)
                /\ \A j \in 3..Len(old[i]) :
                     ~(csv_call.overwrite /\ old[1][j] = csv_call.answers_label)
                        => new[i][j] = old[i][j]

\* the third call overwrote the first of two columns and left the second
C17_Witness ==
    /\ Updated
    /\ updates = 3
    /\ csv_call.overwrite
    /\ Len(csv.lines[1]) = 4
    /\ csv.lines[1][3] = csv_call.answers_label
    /\ csv.lines[2][3] # csv_before.lines[2][3]
    /\ csv.lines[2][4] = "4.33"

\* C29: after any sequence of calls of update_comparison_csv by one writer
\* from no file, with any labels and overwrite flags, the labels of the
\* header are pairwise distinct and every row has as many cells as the header.
C29_DistinctColumns ==
    Updated =>
        LET header == csv.lines[1]
        IN  /\ \A i \in 3..Len(header) :
                 \A j \in 3..Len(header) : i # j => header[i] # header[j]
            /\ \A r \in 2..Len(csv.lines) : Len(csv.lines[r]) = Len(header)

\* gemma_2 was written first, then gemma, then gemma again without overwrite:
\* the suffix 2 was in use and the third column is gemma_3
C29_Witness ==
    /\ Updated
    /\ updates = 3
    /\ ~csv_call.overwrite
    /\ csv_call.answers_label = "gemma"
    /\ csv.lines[1] = <<"Criterion", "Sub-criterion", "gemma_2", "gemma", "gemma_3">>
    /\ \A r \in 2..Len(csv.lines) : Len(csv.lines[r]) = 5

\* the column the last call wrote: the column of the label when it was
\* overwritten, the last column otherwise
WrittenColumn ==
    IF LabelPresent /\ csv_call.overwrite
    THEN CHOOSE j \in 3..Len(csv_before.lines[1]) :
             /\ csv_before.lines[1][j] = csv_call.answers_label
             /\ \A m \in 3..(j - 1) : csv_before.lines[1][m] # csv_call.answers_label
    ELSE Len(csv.lines[1])

\* C21: the cell update_comparison_csv writes in a row is the aggregated mean
\* under (criterion, "Overall") when the row's sub-criterion is "N/A" and
\* under (criterion, sub-criterion) otherwise, blank when the key is absent:
\* the Adherence and Kindness_and_Gentleness rows hold the mean of the
\* section's Overall, and a batch without scored item gives a blank column.
C21_CellLookup ==
    Updated =>
        LET agg == csv_call.aggregated
            col == WrittenColumn
        IN  /\ \A i \in 2..Len(csv.lines) :
                LET row == csv.lines[i]
                    key == IF row[2] = "N/A" THEN <<row[1], "Overall">>
                           ELSE <<row[1], row[2]>>
                IN  row[col] = IF key \in DOMAIN agg THEN str_float(agg[key]) ELSE ""
            /\ \A s \in {"Adherence", "Kindness_and_Gentleness"} :
                \E i \in 2..Len(csv.lines) :
                    /\ csv.lines[i][1] = s
                    /\ csv.lines[i][2] = "N/A"
                    /\ <<s, "Overall">> \in DOMAIN agg
                          => csv.lines[i][col] = str_float(agg[<<s, "Overall">>])
            /\ DOMAIN agg = {} =>
                \A i \in 2..Len(csv.lines) : csv.lines[i][col] = ""

\* after a column of blanks left by a batch whose items all failed, a column
\* was added for a batch whose Adherence Overall is 4.0 while its Adherence
\* Core is 5.0: the Adherence row shows 4.0
C21_Witness ==
    /\ Updated
    /\ Len(csv.lines[1]) = 4
    /\ WrittenColumn = 4
    /\ <<"Adherence", "Core">> \in DOMAIN csv_call.aggregated
    /\ csv_call.aggregated[<<"Adherence", "Overall">>] = 400
    /\ csv_call.aggregated[<<"Adherence", "Core">>] = 500
    /\ csv.lines[2] = <<"Adherence", "N/A", "", "4.0">>
    /\ csv.lines[3] = <<"Kindness_and_Gentleness", "N/A", "", "4.0">>
    /\ \A i \in 2..Len(csv.lines) : csv.lines[i][3] = ""

---------------------------------------------------------------------------
(* Properties of two concurrent calls of update_comparison_csv, under SpecRace *)

\* both calls have ended
BothEnded == \A w \in Writers : writers[w].pc \in {"written", "raised"}

\* the place in the journal of the step of a call
StepAt(w, step) == CHOOSE i \in DOMAIN journal : journal[i] = <<w, step>>

\* the place in the journal of the last step of a call
EndAt(w) == CHOOSE i \in DOMAIN journal :
                journal[i][1] = w /\ journal[i][2] \in {"write", "raise"}

\* one call ended before the other began
OneAfterTheOther ==
    \E a \in Writers, b \in Writers : a # b /\ EndAt(a) < StepAt(b, "rows")

\* both calls read the rows and the header before either wrote
BothReadFirst ==
    \A a \in Writers, b \in Writers : StepAt(a, "header") < EndAt(b)

\* the labels of the header of the table
HeaderLabels ==
    IF csv.exists /\ csv.lines # <<>>
    THEN {csv.lines[1][j] : j \in 3..Len(csv.lines[1])}
    ELSE {}

\* C24: the table is safe under a single writer only.  When two calls of
\* update_comparison_csv for different labels run one after the other, in
\* either order, the table left holds a column for both labels and every row
\* has a cell for every column; when both read the table before either
\* writes, the table left is the one the last call wrote from what it read,
\* and it lacks the column of the other call when the table they found had
\* neither label: the update of the first to write is lost.
C24_SingleWriterOnly ==
    BothEnded =>
        /\ OneAfterTheOther =>
            /\ \A w \in Writers : writers[w].pc = "written"
            /\ \A w \in Writers : writers[w].answers_label \in HeaderLabels
            /\ \A i \in 2..Len(csv.lines) : Len(csv.lines[i]) = Len(csv.lines[1])
        /\ BothReadFirst =>
            \E last \in Writers, lost \in Writers :
                /\ last # lost
                /\ EndAt(lost) < EndAt(last)
                /\ csv = Stored(update_comparison_csv(csv_before,
                                    writers[last].answers_label,
                                    writers[last].aggregated, writers[last].overwrite))
                /\ (\A w \in Writers :
                        writers[w].answers_label
                            \notin Range(ExistingHeaderModels(csv_before)))
                      => writers[lost].answers_label \notin HeaderLabels

\* no table existed; both calls read that, the call for gemma wrote its
\* table, then the call for gemma_2 wrote its own: the column gemma is lost
C24_Witness ==
    /\ BothEnded
    /\ BothReadFirst
    /\ ~csv_before.exists
    /\ \A w \in Writers : writers[w].pc = "written"
    /\ writers[1].answers_label = "gemma"
    /\ EndAt(1) < EndAt(2)
    /\ csv.lines[1] = <<"Criterion", "Sub-criterion", "gemma_2">>

\* C18: a crash while update_comparison_csv persists the table leaves the
\* columns stored by earlier runs intact: the location holds either the
\* complete table of before the call or the complete new table, never a
\* truncated or partly written one.
C18_CrashLeavesOldOrNew ==
    (cstatus = "crashed" /\ csv_before.exists) =>
        \/ csv = csv_before
        \/ csv = Stored(update_comparison_csv(csv_before, csv_call.answers_label,
                                              csv_call.aggregated, csv_call.overwrite))

---------------------------------------------------------------------------
(* Properties of retry_with_backoff, under SpecRetry *)

RECURSIVE Power(_, _)
Power(b, n) == IF n = 0 THEN 1 ELSE b * Power(b, n - 1)

\* retry_with_backoff has returned or raised
RetryEnded == retry_out.status \in {"returned", "raised"}

\* the message of the exception has none of 502, 503, 504, bad gateway,
\* service unavailable, gateway timeout, in any letter case
NotRetryable(e) ==
    \A i \in DOMAIN e.msg :
        e.msg[i] \notin {"502", "503", "504", "bad gateway", "Bad Gateway",
                         "service unavailable", "gateway timeout"}

\* what holds of retry_with_backoff in every state
RetryBounded ==
    retry_out.status # "idle" =>
        /\ Len(calls) <= retry_args.max_retries + 1
        /\ \A k \in 1..(Len(calls) - 1) :
             calls[k].kind = "raised" /\ ~NotRetryable(calls[k])
        /\ \A k \in 1..Len(sleeps) :
             sleeps[k] = retry_args.initial_delay * Power(retry_args.backoff_factor, k - 1)
        /\ retry_out.status = "running" => Len(sleeps) = Len(calls)
        /\ (RetryEnded /\ calls # <<>>) =>
             LET last == calls[Len(calls)]
             IN  /\ Len(sleeps) = Len(calls) - 1
                 /\ retry_out.status = "returned" <=> last.kind = "returned"
                 /\ retry_out.status = "returned" => retry_out.value = last.value
                 /\ retry_out.status = "raised" => retry_out.exception = last
                 /\ (last.kind = "raised" /\ ~NotRetryable(last)) =>
                        Len(calls) = retry_args.max_retries + 1

\* C25: retry_with_backoff calls func at most max_retries + 1 times: it
\* returns the first value func returns without calling it again, raises a
\* non-retryable error again at once, raises the last exception after
\* max_retries + 1 retryable failures, waits initial_delay * backoff_factor^(k-1)
\* before the k-th retry, and always ends.
C25_BoundedRetry == []RetryBounded /\ <>RetryEnded

\* three server errors were retried after waits of 1, 2 and 4 seconds and
\* the fourth call, the last allowed, failed too: its exception was raised
C25_Witness ==
    /\ retry_out.status = "raised"
    /\ retry_args.max_retries = 3
    /\ Len(calls) = 4
    /\ sleeps = <<1, 2, 4>>
    /\ retry_out.exception = calls[4]
    /\ calls[4].msg = <<"Bad Gateway">>

---------------------------------------------------------------------------
(* Properties of resumed runs of create_dataset_script, under SpecResume *)

\* the run is one started with --resume
Resumed == earlier_run # NoRun

\* C26: a run with --resume continues from where the run before it stopped:
\* its start index, the number of non-blank lines of the output file, is the
\* index of the first item the earlier run did not take up, also when items
\* of the earlier run failed and wrote no line; once it has completed, every
\* item of the input has been taken up and no item has two lines in the
\* output file.
C26_ResumeContinues ==
    (Resumed /\ earlier_run.status = "stopped") =>
        /\ creation.start_index = earlier_run.i
        /\ creation.status = "completed" =>
            /\ \A i \in 0..(Len(combined_data) - 1) : i \in Range(attempted)
            /\ \A j \in DOMAIN output_file, k \in DOMAIN output_file :
                 output_file[j] = output_file[k] => j = k

---------------------------------------------------------------------------
(* Properties of append_results_jsonl, under SpecLedger *)

\* C19: the ledger is append-only: every call creates the file when it is
\* missing, leaves every earlier record unchanged and in place, and adds
\* after them one record per item of the batch, scored or failed, in the
\* order of the items, each holding the item's fields and the run metadata;
\* nothing is deduplicated.
C19_AppendOnly ==
    lstatus = "appended" =>
        LET old == LinesOf(ledger_before)
            rs == ledger_call.results
            meta == ledger_call.meta
        IN  /\ ledger.exists
            /\ Len(ledger.lines) = Len(old) + Len(rs)
            /\ SubSeq(ledger.lines, 1, Len(old)) = old
            /\ \A k \in 1..Len(rs) :
                LET line == ledger.lines[Len(old) + k]
                IN  /\ DOMAIN line = DOMAIN rs[k] \cup DOMAIN meta
                    /\ \A f \in DOMAIN rs[k] : line[f] = rs[k][f]
                    /\ \A f \in DOMAIN meta : line[f] = meta[f]

\* the same two results were appended twice with the same metadata: the
\* ledger holds both copies
C19_Witness ==
    /\ lstatus = "appended"
    /\ appends = 2
    /\ Len(ledger.lines) = 4
    /\ ledger.lines[1] = ledger.lines[3]
    /\ ledger.lines[2] = ledger.lines[4]
    /\ IsFailed(ledger.lines[1])
    /\ IsScored(ledger.lines[2])

---------------------------------------------------------------------------
(* Properties of a run of main, under SpecRun *)

\* the questions of the file: its non-blank lines, without the blanks around
QuestionsOfFile == {strip(questions_file[i]) : i \in DOMAIN questions_file} \ {<<>>}

\* the number of non-blank lines of the file
NonBlankCount == Len(SelectSeq(questions_file, NonBlank))

\* the questions the dataset holds an answer for
QuestionsAnswered ==
    {dataset[k].user : k \in {j \in DOMAIN dataset : dataset[j].assistant # <<>>}}

\* the dataset holds no answer for a question of the file
QuestionUnanswered == ~(QuestionsOfFile \subseteq QuestionsAnswered)

\* C20: when the question file does not hold exactly 100 non-blank questions,
\* or the dataset holds no answer for a required question, the run aborts
\* before any scoring: no call to the Judge is made, the comparison table is
\* not written and nothing is appended to the ledger.
C20_AbortsBeforeScoring ==
    (rstatus \in {"aborted", "completed"}
        /\ (NonBlankCount # 100 \/ QuestionUnanswered)) =>
            /\ rstatus = "aborted"
            /\ judged = <<>>
            /\ csv = run_start.csv
            /\ ledger = run_start.ledger

---------------------------------------------------------------------------
(* Properties of a run of main in a generate-* mode, under SpecGenerate *)

\* C27: in a generate-* run that completes, every pair that is scored holds
\* the answer generated in this run for its question, also when the output
\* dataset existed before the run.
C27_ScoresFreshAnswers ==
    rstatus = "completed" =>
        \A k \in DOMAIN pairs :
            \E j \in DOMAIN generated :
                /\ generated[j].question = pairs[k].question
                /\ generated[j].answer = pairs[k].answer

=========================================================================
